---- MODULE Spec2Model ----
(***************************************************************************)
(* The PrivateSend mixing coordinator (CPrivateSendServer): the session    *)
(* state machine of src/src/privatesend/privatesend-server.cpp, its        *)
(* message handlers and its maintenance tick.                              *)
(*                                                                         *)
(* Every handler is one action.  A handler's effect on the session is      *)
(* computed by operators over a record s holding the server's fields; the  *)
(* field `out` of s is the list of what the handler sent or submitted, in  *)
(* order, and becomes the variable `outbox` (the effects of the last       *)
(* handler that ran).                                                      *)
(***************************************************************************)
EXTENDS Integers, Sequences, FiniteSets, Bags, TLC

\* ---------------------------------------------------------------- bounds
MaxSessionID == 1      \* GetRandInt(999999) + 1 is drawn from 1..MaxSessionID
TimeStep == 31         \* seconds the clock advances in one step
MaxDsqCount == 3       \* advertisements are counted up to MaxDsqCount

\* ------------------------------------------------------ program constants
PRIVATESEND_QUEUE_TIMEOUT == 30
PRIVATESEND_SIGNING_TIMEOUT == 15
MIN_PRIVATESEND_PEER_PROTO_VERSION == 70206
PRIVATESEND_ENTRY_MAX_SIZE == 9
\* CPrivateSend::GetMinPoolParticipants / GetMaxPoolParticipants (chain params)
MinPoolParticipants == 2
MaxPoolParticipants == 3

POOL_STATE_IDLE == "IDLE"
POOL_STATE_QUEUE == "QUEUE"
POOL_STATE_ACCEPTING_ENTRIES == "ACCEPTING_ENTRIES"
POOL_STATE_SIGNING == "SIGNING"
POOL_STATE_ERROR == "ERROR"
POOL_STATE_SUCCESS == "SUCCESS"
PoolState == {POOL_STATE_IDLE, POOL_STATE_QUEUE, POOL_STATE_ACCEPTING_ENTRIES,
              POOL_STATE_SIGNING, POOL_STATE_ERROR, POOL_STATE_SUCCESS}

STATUS_REJECTED == "REJECTED"
STATUS_ACCEPTED == "ACCEPTED"

\* ------------------------------------------------------------ data types
OwnOutpoint == "mn0"               \* activeMasternodeInfo.outpoint

OutPoint(h, n) == [hash |-> h, n |-> n]
TxIn(o) == [prevout |-> o, scriptSig |-> 0, nSequence |-> 0]
TxOut(v, s) == [nValue |-> v, scriptPubKey |-> s]
\* CTxDSIn(const CTxIn&): the input with fHasSig = false
CTxDSIn(txin) == [prevout |-> txin.prevout, scriptSig |-> txin.scriptSig,
                  nSequence |-> txin.nSequence, fHasSig |-> FALSE]
AsTxIn(txdsin) == [prevout |-> txdsin.prevout, scriptSig |-> txdsin.scriptSig,
                   nSequence |-> txdsin.nSequence]

EmptyTx == [vin |-> <<>>, vout |-> <<>>]

\* A collateral transaction: its hash, whether IsCollateralValid accepts it
\* and whether its inputs are spent already.
Collateral(h, ok, spent) == [hash |-> h, fValid |-> ok, fSpent |-> spent]

RECURSIVE SeqToSet(_)
SeqToSet(q) == IF q = <<>> THEN {} ELSE {Head(q)} \cup SeqToSet(Tail(q))

RECURSIVE Concat(_)
Concat(qq) == IF qq = <<>> THEN <<>> ELSE Head(qq) \o Concat(Tail(qq))

\* ---------------------------------------------------------------- state
VARIABLES
  nState,                 \* PoolState of the session
  nSessionID,             \* 0 if no mixing session is active
  nSessionDenom,          \* denomination of the session
  vecSessionCollaterals,  \* collaterals of the admitted participants
  vecEntries,             \* the participants' entries
  finalMutableTransaction,\* the assembled transaction
  nElapsed,               \* GetTime() - nTimeLastSuccessfulStep, saturating
  vecPrivateSendQueue,    \* queue advertisements seen (and the own ones)
  nDsqCount,              \* mmetaman: advertisements counted so far
  nLastDsq,               \* mmetaman: per masternode, nDsqCount at its last one
  outbox,                 \* what the last handler sent / submitted, in order
  handler,                \* the handler that ran last
  pc,                     \* per thread, the place in the handler it runs
  cs_vecqueue             \* the thread that holds cs_vecqueue, or "free"

vars == <<nState, nSessionID, nSessionDenom, vecSessionCollaterals, vecEntries,
          finalMutableTransaction, nElapsed, vecPrivateSendQueue, nDsqCount,
          nLastDsq, outbox, handler, pc, cs_vecqueue>>

\* The server's fields, and what the threads that run the handlers are at.
fields == <<nState, nSessionID, nSessionDenom, vecSessionCollaterals, vecEntries,
            finalMutableTransaction, nElapsed, vecPrivateSendQueue, nDsqCount,
            nLastDsq, outbox, handler>>

threads == <<pc, cs_vecqueue>>

\* The message handling thread calls ProcessMessage, the scheduler thread
\* calls DoMaintenance.
Threads == {"msghand", "scheduler"}

\* The server's fields as one record, at the start of a handler.
Cur == [nState |-> nState, nSessionID |-> nSessionID,
        nSessionDenom |-> nSessionDenom,
        vecSessionCollaterals |-> vecSessionCollaterals,
        vecEntries |-> vecEntries,
        finalMutableTransaction |-> finalMutableTransaction,
        nElapsed |-> nElapsed,
        vecPrivateSendQueue |-> vecPrivateSendQueue,
        nDsqCount |-> nDsqCount, nLastDsq |-> nLastDsq,
        out |-> <<>>]

\* Evaluates v once and hands the value to G (an operator's argument is
\* otherwise evaluated again at every use).
Bind(v, G(_)) == CHOOSE r \in {G(y) : y \in {v}} : TRUE

\* The handler's result s becomes the next state.
Becomes(s) ==
  /\ nState' = s.nState
  /\ nSessionID' = s.nSessionID
  /\ nSessionDenom' = s.nSessionDenom
  /\ vecSessionCollaterals' = s.vecSessionCollaterals
  /\ vecEntries' = s.vecEntries
  /\ finalMutableTransaction' = s.finalMutableTransaction
  /\ nElapsed' = s.nElapsed
  /\ vecPrivateSendQueue' = s.vecPrivateSendQueue
  /\ nDsqCount' = s.nDsqCount
  /\ nLastDsq' = s.nLastDsq
  /\ outbox' = s.out

\* One effect of a handler.  type: what happened; to: the peer it went to (0:
\* none / everybody); a, b, c: its payload.
Ev(type, to, id, a, b, c) ==
  [type |-> type, to |-> to, nSessionID |-> id, a |-> a, b |-> b, c |-> c]

Emit(s, e) == [s EXCEPT !.out = Append(@, e)]

\* ------------------------------------------------------- session basics
\* CPrivateSendBaseSession::SetNull: the session's own fields.
BaseSessionSetNull(s0) ==
  Bind(s0, LAMBDA s :
  [s EXCEPT !.nState = POOL_STATE_IDLE, !.nSessionID = 0, !.nSessionDenom = 0,
            !.vecEntries = <<>>, !.finalMutableTransaction = EmptyTx,
            !.nElapsed = 0])

\* CPrivateSendBaseManager::SetNull: the advertisements seen.
BaseManagerSetNull(s0) ==
  Bind(s0, LAMBDA s :
  [s EXCEPT !.vecPrivateSendQueue = <<>>])

SetNull(s0) ==
  Bind(s0, LAMBDA s :
  LET s1 == [s EXCEPT !.vecSessionCollaterals = <<>>]
      s2 == BaseManagerSetNull(BaseSessionSetNull(s1))
  IN Emit(s2, Ev("SetNull", 0, s.nSessionID, s.nState, s2.nState, 0)))

SetState(s0, nStateNew) ==
  Bind(s0, LAMBDA s :
  IF nStateNew = POOL_STATE_ERROR \/ nStateNew = POOL_STATE_SUCCESS
  THEN s
  ELSE Emit([s EXCEPT !.nElapsed = 0, !.nState = nStateNew],
            Ev("SetState", 0, s.nSessionID, s.nState, nStateNew,
               [nEntries |-> Len(s.vecEntries),
                nCollaterals |-> Len(s.vecSessionCollaterals),
                nElapsed |-> s.nElapsed])))

HasTimedOut(s0) ==
  Bind(s0, LAMBDA s :
  IF s.nState = POOL_STATE_IDLE THEN FALSE
  ELSE LET nTimeout == IF s.nState = POOL_STATE_SIGNING
                       THEN PRIVATESEND_SIGNING_TIMEOUT
                       ELSE PRIVATESEND_QUEUE_TIMEOUT
       IN s.nElapsed >= nTimeout)

\* IsSessionReady as it would be without the test of line 743: ready in any
\* state once the collaterals are enough.
IsSessionReadyAnyState(s0) ==
  Bind(s0, LAMBDA s :
  \/ Len(s.vecSessionCollaterals) >= MaxPoolParticipants
  \/ /\ HasTimedOut(s)
     /\ Len(s.vecSessionCollaterals) >= MinPoolParticipants
  \/ s.nState = POOL_STATE_ACCEPTING_ENTRIES)

\* IsSessionReady as it would be letting one participant too many in (line
\* 744 with > for >=).
IsSessionReadyOffByOne(s0) ==
  Bind(s0, LAMBDA s :
  \/ /\ s.nState = POOL_STATE_QUEUE
     /\ \/ Len(s.vecSessionCollaterals) > MaxPoolParticipants
        \/ /\ HasTimedOut(s)
           /\ Len(s.vecSessionCollaterals) >= MinPoolParticipants
  \/ s.nState = POOL_STATE_ACCEPTING_ENTRIES)

\* CPrivateSendServer::IsSessionReady, lines 741-755.
IsSessionReady(s0) ==
  Bind(s0, LAMBDA s :
  \/ /\ s.nState = POOL_STATE_QUEUE
     /\ \/ Len(s.vecSessionCollaterals) >= MaxPoolParticipants
        \/ /\ HasTimedOut(s)
           /\ Len(s.vecSessionCollaterals) >= MinPoolParticipants
  \/ s.nState = POOL_STATE_ACCEPTING_ENTRIES)

\* GetEntriesCount as it would be counting one entry too few.
GetEntriesCountOffByOne(s0) == Len(s0.vecEntries) - 1

GetEntriesCount(s0) ==
  Bind(s0, LAMBDA s :
  Len(s.vecEntries))

\* connman.PushMessage(pnode, DSSTATUSUPDATE(nSessionID, nState, 0, status, id))
PushStatus(s0, pnode, nStatusUpdate, nMessageID) ==
  Bind(s0, LAMBDA s :
  Emit(s, Ev("dssu", pnode, s.nSessionID, s.nState, nStatusUpdate, nMessageID)))

\* The addresses of the participants that have an entry, in entry order.
EntryAddrs(s0) ==
  Bind(s0, LAMBDA s :
  [i \in 1..Len(s.vecEntries) |-> s.vecEntries[i].addr])

\* connman.ForNode(addr, f): f runs when a node with that address is
\* connected (conn: the nodes connected while the handler runs).
\* RelayStatus, first part: one status per connected participant.
RECURSIVE PushStatusAll(_, _, _, _, _)
PushStatusAll(s0, addrs, conn, nStatusUpdate, nMessageID) ==
  Bind(s0, LAMBDA s :
  IF addrs = <<>> THEN s
  ELSE PushStatusAll(
         IF Head(addrs) \in conn
         THEN PushStatus(s, Head(addrs), nStatusUpdate, nMessageID)
         ELSE Emit(s, Ev("ForNodeFailed", Head(addrs), s.nSessionID, 0, 0, 0)),
         Tail(addrs), conn, nStatusUpdate, nMessageID))

NumDisconnected(addrs, conn) ==
  Cardinality({i \in 1..Len(addrs) : addrs[i] \notin conn})

RelayStatus(s0, nStatusUpdate, nMessageID, conn) ==
  Bind(s0, LAMBDA s :
  LET addrs == EntryAddrs(s)
      nDisconnected == NumDisconnected(addrs, conn)
  IN Bind(PushStatusAll(s, addrs, conn, nStatusUpdate, nMessageID), LAMBDA s1 :
     IF nDisconnected = 0 THEN s1
     ELSE LET s2 == PushStatusAll(s1, addrs, conn, STATUS_REJECTED, "MSG_NOERR")
          IN IF nDisconnected = Len(s.vecEntries) THEN SetNull(s2) ELSE s2))

\* RelayFinalTransaction / RelayCompletedTransaction: one message per entry,
\* in order; at the first participant that is not connected, RelayStatus
\* (rejected) and stop.
RECURSIVE RelayToEntries(_, _, _, _)
RelayToEntries(s0, addrs, conn, ev) ==
  Bind(s0, LAMBDA s :
  IF addrs = <<>> THEN s
  ELSE IF Head(addrs) \in conn
       THEN RelayToEntries(Emit(s, [ev EXCEPT !.to = Head(addrs)]),
                           Tail(addrs), conn, ev)
       ELSE RelayStatus(Emit(s, Ev("ForNodeFailed", Head(addrs), s.nSessionID, 0, 0, 0)),
                        STATUS_REJECTED, "MSG_NOERR", conn))

RelayFinalTransaction(s0, txFinal, conn) ==
  Bind(s0, LAMBDA s :
  Bind(Ev("dsf", 0, s.nSessionID, txFinal, 0, 0), LAMBDA ev :
    RelayToEntries(s, EntryAddrs(s), conn, ev)))

RelayCompletedTransaction(s0, nMessageID, conn) ==
  Bind(s0, LAMBDA s :
  RelayToEntries(s, EntryAddrs(s), conn,
                 Ev("dsc", 0, s.nSessionID, nMessageID, 0, 0)))

\* ------------------------------------------------- queue advertisements
\* CPrivateSendQueue(nDenom, outpoint, nTime, fReady); nTime is kept as the
\* advertisement's age, GetAdjustedTime() - nTime.
CPrivateSendQueue(nDenom, outpoint, nAge, fReady) ==
  [nDenom |-> nDenom, masternodeOutpoint |-> outpoint, nTime |-> nAge,
   fReady |-> fReady, vchSig |-> "none"]

\* CPrivateSendQueue::Sign: signs with the operator key when it can
\* (fSigned: the signing succeeded); the result is not looked at by callers.
Sign(dsq, fSigned) ==
  [dsq EXCEPT !.vchSig = IF fSigned THEN dsq.masternodeOutpoint ELSE "none"]

\* CPrivateSendQueue::Relay
Relay(s0, dsq) ==
  Bind(s0, LAMBDA s :
  Emit(s, Ev("dsq", 0, s.nSessionID, dsq, 0, 0)))

\* ------------------------------------------------------ admission (dsa)
\* CPrivateSend::IsValidDenomination: one of the standard denominations'
\* single-bit codes.
IsValidDenomination(nDenom) == nDenom \in {1, 2, 4, 8}

\* CPrivateSend::IsCollateralValid: decided by the collateral alone.
IsCollateralValid(txCollateral) == txCollateral.fValid

Result(s0, fResult, nMessageID) ==
  Bind(s0, LAMBDA s :
  [s |-> s, fResult |-> fResult, nMessageID |-> nMessageID])

\* nMessageIDRet comes in as nMessageID and is left alone on the early returns.
IsAcceptableDSA(s0, dsa, nMessageID) ==
  Bind(s0, LAMBDA s :
  IF ~IsValidDenomination(dsa.nDenom) THEN Result(s, FALSE, "ERR_DENOM")
  ELSE IF ~IsCollateralValid(dsa.txCollateral)
       THEN Result(s, FALSE, "ERR_INVALID_COLLATERAL")
       ELSE Result(s, TRUE, nMessageID))

\* CreateNewSession as it would be without line 686 (nSessionID is left 0).
CreateNewSessionWithoutID(s0, dsa, nMessageID, nRand, fSigned) ==
  Bind(s0, LAMBDA s :
  IF s.nSessionID # 0 THEN Result(s, FALSE, nMessageID)
  ELSE IF s.nState # POOL_STATE_IDLE THEN Result(s, FALSE, "ERR_MODE")
  ELSE LET acc == IsAcceptableDSA(s, dsa, nMessageID)
       IN IF ~acc.fResult THEN acc
          ELSE LET s1 == [s EXCEPT !.nSessionDenom = dsa.nDenom]
                   s2 == SetState(s1, POOL_STATE_QUEUE)
                   dsq == Sign(CPrivateSendQueue(s2.nSessionDenom, OwnOutpoint,
                                                 0, FALSE), fSigned)
                   s3 == Relay(s2, dsq)
                   s4 == [s3 EXCEPT !.vecPrivateSendQueue = Append(@, dsq)]
                   s5 == [s4 EXCEPT !.vecSessionCollaterals =
                                       Append(@, dsa.txCollateral)]
               IN Result(s5, TRUE, "MSG_NOERR"))

\* nRand: GetRandInt(999999) + 1; fSigned: whether dsq.Sign() succeeded.
CreateNewSession(s0, dsa, nMessageID, nRand, fSigned) ==
  Bind(s0, LAMBDA s :
  IF s.nSessionID # 0 THEN Result(s, FALSE, nMessageID)
  ELSE IF s.nState # POOL_STATE_IDLE THEN Result(s, FALSE, "ERR_MODE")
  ELSE LET acc == IsAcceptableDSA(s, dsa, nMessageID)
       IN IF ~acc.fResult THEN acc
          ELSE LET s1 == [s EXCEPT !.nSessionID = nRand,
                                   !.nSessionDenom = dsa.nDenom]
                   s2 == SetState(s1, POOL_STATE_QUEUE)
                   dsq == Sign(CPrivateSendQueue(s2.nSessionDenom, OwnOutpoint,
                                                 0, FALSE), fSigned)
                   s3 == Relay(s2, dsq)
                   s4 == [s3 EXCEPT !.vecPrivateSendQueue = Append(@, dsq)]
                   s5 == [s4 EXCEPT !.vecSessionCollaterals =
                                       Append(@, dsa.txCollateral)]
               IN Result(s5, TRUE, "MSG_NOERR"))

\* AddUserToExistingSession as it would be counting the new user as a
\* successful step (nTimeLastSuccessfulStep = GetTime()).
AddUserToExistingSessionRestartsClock(s0, dsa, nMessageID) ==
  Bind(s0, LAMBDA s :
  IF s.nSessionID = 0 \/ IsSessionReady(s) THEN Result(s, FALSE, nMessageID)
  ELSE LET acc == IsAcceptableDSA(s, dsa, nMessageID)
       IN IF ~acc.fResult THEN acc
          ELSE IF s.nState # POOL_STATE_QUEUE THEN Result(s, FALSE, "ERR_MODE")
          ELSE IF dsa.nDenom # s.nSessionDenom THEN Result(s, FALSE, "ERR_DENOM")
          ELSE Result([s EXCEPT !.vecSessionCollaterals =
                                   Append(@, dsa.txCollateral),
                                !.nElapsed = 0],
                      TRUE, "MSG_NOERR"))

\* AddUserToExistingSession as it would be without the test of lines 715-719
\* (nState != POOL_STATE_QUEUE).
AddUserToExistingSessionAnyState(s0, dsa, nMessageID) ==
  Bind(s0, LAMBDA s :
  IF s.nSessionID = 0 \/ IsSessionReady(s) THEN Result(s, FALSE, nMessageID)
  ELSE LET acc == IsAcceptableDSA(s, dsa, nMessageID)
       IN IF ~acc.fResult THEN acc
          ELSE IF dsa.nDenom # s.nSessionDenom THEN Result(s, FALSE, "ERR_DENOM")
          ELSE Result([s EXCEPT !.vecSessionCollaterals =
                                   Append(@, dsa.txCollateral)],
                      TRUE, "MSG_NOERR"))

\* AddUserToExistingSession as it would be storing the collateral before the
\* checks of lines 715-727.
AddUserToExistingSessionStoreFirst(s0, dsa, nMessageID) ==
  Bind([s0 EXCEPT !.vecSessionCollaterals = Append(@, dsa.txCollateral)], LAMBDA s :
  IF s.nSessionID = 0 \/ IsSessionReady(s0) THEN Result(s0, FALSE, nMessageID)
  ELSE LET acc == IsAcceptableDSA(s, dsa, nMessageID)
       IN IF ~acc.fResult THEN acc
          ELSE IF s.nState # POOL_STATE_QUEUE THEN Result(s, FALSE, "ERR_MODE")
          ELSE IF dsa.nDenom # s.nSessionDenom THEN Result(s, FALSE, "ERR_DENOM")
          ELSE Result(s, TRUE, "MSG_NOERR"))

AddUserToExistingSession(s0, dsa, nMessageID) ==
  Bind(s0, LAMBDA s :
  IF s.nSessionID = 0 \/ IsSessionReady(s) THEN Result(s, FALSE, nMessageID)
  ELSE LET acc == IsAcceptableDSA(s, dsa, nMessageID)
       IN IF ~acc.fResult THEN acc
          ELSE IF s.nState # POOL_STATE_QUEUE THEN Result(s, FALSE, "ERR_MODE")
          ELSE IF dsa.nDenom # s.nSessionDenom THEN Result(s, FALSE, "ERR_DENOM")
          ELSE Result([s EXCEPT !.vecSessionCollaterals =
                                   Append(@, dsa.txCollateral)],
                      TRUE, "MSG_NOERR"))

\* GetValidMNsCount(): the size of the masternode registry.
RegistrySize == 5

\* ProcessMessage(pfrom, strCommand, vRecv): the effect that records the
\* message (a) of a peer (to) of a version (c), and the session as the
\* handler finds it (b).
Received(s0, strCommand, pfrom, nVersion, msg) ==
  Bind(s0, LAMBDA s :
  Emit(s, Ev(strCommand, pfrom, s.nSessionID, msg,
             [nState |-> s.nState, vecEntries |-> s.vecEntries,
              vecSessionCollaterals |-> s.vecSessionCollaterals,
              fSessionReady |-> IsSessionReady(s)], nVersion)))

\* The REJECT message sent to a peer with an obsolete version.
PushReject(s0, pfrom, strCommand) ==
  Bind(s0, LAMBDA s :
  Emit(s, Ev("reject", pfrom, s.nSessionID, strCommand, "REJECT_OBSOLETE", 0)))

\* TRY_LOCK(cs_vecqueue, lockRecv)
TryLockQueue(s0, fLock) ==
  Bind(s0, LAMBDA s :
  Emit(s, Ev("TRY_LOCK", 0, s.nSessionID, "cs_vecqueue", 0, fLock)))

\* ProcessMessage, DSACCEPT, as it would be without the check of lines 75-84.
ProcessDSACCEPTWithoutThreshold(s0, pfrom, nVersion, dsa, fDmn, fLockRecv, nRand, fSigned) ==
  Bind(Received(s0, "DSACCEPT", pfrom, nVersion, dsa), LAMBDA s :
  IF nVersion < MIN_PRIVATESEND_PEER_PROTO_VERSION
  THEN PushStatus(PushReject(s, pfrom, "dsa"), pfrom, STATUS_REJECTED, "ERR_VERSION")
  ELSE IF IsSessionReady(s)
  THEN PushStatus(s, pfrom, STATUS_REJECTED, "ERR_QUEUE_FULL")
  ELSE IF ~fDmn
  THEN PushStatus(s, pfrom, STATUS_REJECTED, "ERR_MN_LIST")
  ELSE Bind(IF s.vecSessionCollaterals = <<>>
            THEN TryLockQueue(s, fLockRecv) ELSE s, LAMBDA s1 :
  IF s1.vecSessionCollaterals = <<>> /\ ~fLockRecv
  THEN s1
  ELSE IF /\ s1.vecSessionCollaterals = <<>>
          /\ \E i \in 1..Len(s1.vecPrivateSendQueue) :
               s1.vecPrivateSendQueue[i].masternodeOutpoint = OwnOutpoint
  THEN PushStatus(s1, pfrom, STATUS_REJECTED, "ERR_RECENT")
  ELSE Bind(IF s1.nSessionID = 0
            THEN CreateNewSession(s1, dsa, "MSG_NOERR", nRand, fSigned)
            ELSE AddUserToExistingSession(s1, dsa, "MSG_NOERR"), LAMBDA r :
          IF r.fResult
          THEN PushStatus(r.s, pfrom, STATUS_ACCEPTED, r.nMessageID)
          ELSE PushStatus(r.s, pfrom, STATUS_REJECTED, r.nMessageID))))

\* ProcessMessage, DSACCEPT.  fDmn: the own masternode is in the valid list;
\* fLockRecv: TRY_LOCK(cs_vecqueue) succeeded.
ProcessDSACCEPT(s0, pfrom, nVersion, dsa, fDmn, fLockRecv, nRand, fSigned) ==
  Bind(Received(s0, "DSACCEPT", pfrom, nVersion, dsa), LAMBDA s :
  IF nVersion < MIN_PRIVATESEND_PEER_PROTO_VERSION
  THEN PushStatus(PushReject(s, pfrom, "dsa"), pfrom, STATUS_REJECTED, "ERR_VERSION")
  ELSE IF IsSessionReady(s)
  THEN PushStatus(s, pfrom, STATUS_REJECTED, "ERR_QUEUE_FULL")
  ELSE IF ~fDmn
  THEN PushStatus(s, pfrom, STATUS_REJECTED, "ERR_MN_LIST")
  ELSE Bind(IF s.vecSessionCollaterals = <<>>
            THEN TryLockQueue(s, fLockRecv) ELSE s, LAMBDA s1 :
  IF s1.vecSessionCollaterals = <<>> /\ ~fLockRecv
  THEN s1
  ELSE IF /\ s1.vecSessionCollaterals = <<>>
          /\ \E i \in 1..Len(s1.vecPrivateSendQueue) :
               s1.vecPrivateSendQueue[i].masternodeOutpoint = OwnOutpoint
  THEN PushStatus(s1, pfrom, STATUS_REJECTED, "ERR_RECENT")
  ELSE IF /\ s1.vecSessionCollaterals = <<>>
          /\ s1.nLastDsq[OwnOutpoint] # 0
          /\ s1.nLastDsq[OwnOutpoint] + RegistrySize \div 5 > s1.nDsqCount
  THEN PushStatus(s1, pfrom, STATUS_REJECTED, "ERR_RECENT")
  ELSE Bind(IF s1.nSessionID = 0
            THEN CreateNewSession(s1, dsa, "MSG_NOERR", nRand, fSigned)
            ELSE AddUserToExistingSession(s1, dsa, "MSG_NOERR"), LAMBDA r :
          IF r.fResult
          THEN PushStatus(r.s, pfrom, STATUS_ACCEPTED, r.nMessageID)
          ELSE PushStatus(r.s, pfrom, STATUS_REJECTED, r.nMessageID))))

\* ------------------------------------------ advertisements of others (dsq)
\* operator== of two advertisements: the signature is not compared.
SameQueue(a, b) ==
  /\ a.nDenom = b.nDenom
  /\ a.masternodeOutpoint = b.masternodeOutpoint
  /\ a.nTime = b.nTime
  /\ a.fReady = b.fReady

\* CPrivateSendQueue::IsTimeOutOfBounds: the advertisement is older than the
\* queue timeout, or as much ahead of the clock.
IsTimeOutOfBounds(dsq) ==
  \/ dsq.nTime > PRIVATESEND_QUEUE_TIMEOUT
  \/ 0 - dsq.nTime > PRIVATESEND_QUEUE_TIMEOUT

\* mnList.GetValidMNByCollateral(outpoint): the masternodes of the list.
ValidMNs == {OwnOutpoint, "mn1"}

\* CPrivateSendQueue::CheckSignature(pubKeyOperator): the signature is the one
\* Sign makes for the masternode of the advertisement.
CheckSignature(dsq) == dsq.vchSig = dsq.masternodeOutpoint

\* mmetaman.AllowMixing(proTxHash): counts the advertisement and stamps the
\* masternode with the count.
AllowMixing(s0, proTxHash) ==
  Bind(s0, LAMBDA s :
  [s EXCEPT !.nDsqCount = s.nDsqCount + 1,
            !.nLastDsq[proTxHash] = s.nDsqCount + 1])

\* ProcessMessage, DSQUEUE, as it would be with the check of line 142 (if (!dsq.fReady)) missing.
ProcessDSQUEUEReadyToo(s0, pfrom, nVersion, dsq, fLockRecv, fLockRecv2) ==
  Bind(Received(s0, "DSQUEUE", pfrom, nVersion, dsq), LAMBDA s :
  IF nVersion < MIN_PRIVATESEND_PEER_PROTO_VERSION
  THEN PushReject(s, pfrom, "dsq")
  ELSE Bind(TryLockQueue(s, fLockRecv), LAMBDA s1 :
  IF ~fLockRecv THEN s1
  ELSE IF \E i \in 1..Len(s1.vecPrivateSendQueue) :
            \/ SameQueue(s1.vecPrivateSendQueue[i], dsq)
            \/ /\ s1.vecPrivateSendQueue[i].fReady = dsq.fReady
               /\ s1.vecPrivateSendQueue[i].masternodeOutpoint = dsq.masternodeOutpoint
  THEN s1
  ELSE IF IsTimeOutOfBounds(dsq) THEN s1
  ELSE IF dsq.masternodeOutpoint \notin ValidMNs THEN s1
  ELSE IF ~CheckSignature(dsq)
  THEN Emit(s1, Ev("Misbehaving", pfrom, s1.nSessionID, 10, 0, 0))
  ELSE LET nLast == s1.nLastDsq[dsq.masternodeOutpoint]
            nThreshold == nLast + RegistrySize \div 5
        IN IF nLast # 0 /\ nThreshold > s1.nDsqCount THEN s1
           ELSE Bind(TryLockQueue(AllowMixing(s1, dsq.masternodeOutpoint),
                                  fLockRecv2), LAMBDA s2 :
                IF ~fLockRecv2 THEN s2
                ELSE Relay([s2 EXCEPT !.vecPrivateSendQueue = Append(@, dsq)],
                           dsq))))

\* ProcessMessage, DSQUEUE, as it would be looking at the signature before
\* the time (lines 130 and 136 the other way round).
ProcessDSQUEUESignatureFirst(s0, pfrom, nVersion, dsq, fLockRecv, fLockRecv2) ==
  Bind(Received(s0, "DSQUEUE", pfrom, nVersion, dsq), LAMBDA s :
  IF nVersion < MIN_PRIVATESEND_PEER_PROTO_VERSION
  THEN PushReject(s, pfrom, "dsq")
  ELSE Bind(TryLockQueue(s, fLockRecv), LAMBDA s1 :
  IF ~fLockRecv THEN s1
  ELSE IF \E i \in 1..Len(s1.vecPrivateSendQueue) :
            \/ SameQueue(s1.vecPrivateSendQueue[i], dsq)
            \/ /\ s1.vecPrivateSendQueue[i].fReady = dsq.fReady
               /\ s1.vecPrivateSendQueue[i].masternodeOutpoint = dsq.masternodeOutpoint
  THEN s1
  ELSE IF dsq.masternodeOutpoint \notin ValidMNs THEN s1
  ELSE IF ~CheckSignature(dsq)
  THEN Emit(s1, Ev("Misbehaving", pfrom, s1.nSessionID, 10, 0, 0))
  ELSE IF IsTimeOutOfBounds(dsq) THEN s1
  ELSE IF dsq.fReady THEN s1
  ELSE LET nLast == s1.nLastDsq[dsq.masternodeOutpoint]
            nThreshold == nLast + RegistrySize \div 5
        IN IF nLast # 0 /\ nThreshold > s1.nDsqCount THEN s1
           ELSE Bind(TryLockQueue(AllowMixing(s1, dsq.masternodeOutpoint),
                                  fLockRecv2), LAMBDA s2 :
                IF ~fLockRecv2 THEN s2
                ELSE Relay([s2 EXCEPT !.vecPrivateSendQueue = Append(@, dsq)],
                           dsq))))

\* ProcessMessage, DSQUEUE, lines 101-160.  fLockRecv, fLockRecv2: the two
\* TRY_LOCK(cs_vecqueue).
ProcessDSQUEUE(s0, pfrom, nVersion, dsq, fLockRecv, fLockRecv2) ==
  Bind(Received(s0, "DSQUEUE", pfrom, nVersion, dsq), LAMBDA s :
  IF nVersion < MIN_PRIVATESEND_PEER_PROTO_VERSION
  THEN PushReject(s, pfrom, "dsq")
  ELSE Bind(TryLockQueue(s, fLockRecv), LAMBDA s1 :
  IF ~fLockRecv THEN s1
  ELSE IF \E i \in 1..Len(s1.vecPrivateSendQueue) :
            \/ SameQueue(s1.vecPrivateSendQueue[i], dsq)
            \/ /\ s1.vecPrivateSendQueue[i].fReady = dsq.fReady
               /\ s1.vecPrivateSendQueue[i].masternodeOutpoint = dsq.masternodeOutpoint
  THEN s1
  ELSE IF IsTimeOutOfBounds(dsq) THEN s1
  ELSE IF dsq.masternodeOutpoint \notin ValidMNs THEN s1
  ELSE IF ~CheckSignature(dsq)
  THEN Emit(s1, Ev("Misbehaving", pfrom, s1.nSessionID, 10, 0, 0))
  ELSE IF dsq.fReady THEN s1
  ELSE LET nLast == s1.nLastDsq[dsq.masternodeOutpoint]
            nThreshold == nLast + RegistrySize \div 5
        IN IF nLast # 0 /\ nThreshold > s1.nDsqCount THEN s1
           ELSE Bind(TryLockQueue(AllowMixing(s1, dsq.masternodeOutpoint),
                                  fLockRecv2), LAMBDA s2 :
                IF ~fLockRecv2 THEN s2
                ELSE Relay([s2 EXCEPT !.vecPrivateSendQueue = Append(@, dsq)],
                           dsq))))

\* --------------------------------------------------- collateral charging
\* GetRandInt(100): the draws that decide a comparison with 10 or with 33.
GetRandInt100 == {10, 11, 33, 34}

\* AcceptToMemoryPool for a collateral: refused when its inputs are spent
\* already (the collateral says so), accepted otherwise.
MempoolAccepts(txref) == ~txref.fSpent

\* ConsumeCollateral: an accepted collateral is relayed.
ConsumeCollateral(s0, txref) ==
  Bind(s0, LAMBDA s :
  IF ~MempoolAccepts(txref)
  THEN Emit(s, Ev("AcceptToMemoryPool", 0, s.nSessionID, "collateral", txref, FALSE))
  ELSE Emit(Emit(s, Ev("AcceptToMemoryPool", 0, s.nSessionID, "collateral", txref, TRUE)),
            Ev("RelayTransaction", 0, s.nSessionID, "collateral", txref, 0)))

\* ChargeFees, lines 361-377: the collaterals no entry carries.
RECURSIVE OffendersAccepting(_, _)
OffendersAccepting(s0, colls) ==
  Bind(s0, LAMBDA s :
  IF colls = <<>> THEN <<>>
  ELSE LET fFound == \E i \in 1..Len(s.vecEntries) :
                        s.vecEntries[i].txCollateral = Head(colls)
       IN (IF fFound THEN <<>> ELSE <<Head(colls)>>)
          \o OffendersAccepting(s, Tail(colls)))

\* ChargeFees, lines 379-389: the entry's collateral once per unsigned input.
RECURSIVE OffendersOfEntry(_, _)
OffendersOfEntry(entry, ins) ==
  IF ins = <<>> THEN <<>>
  ELSE (IF ~Head(ins).fHasSig THEN <<entry.txCollateral>> ELSE <<>>)
       \o OffendersOfEntry(entry, Tail(ins))

RECURSIVE OffendersSigning(_)
OffendersSigning(entries) ==
  IF entries = <<>> THEN <<>>
  ELSE OffendersOfEntry(Head(entries), Head(entries).vecTxDSIn)
       \o OffendersSigning(Tail(entries))

Offenders(s0) ==
  Bind(s0, LAMBDA s :
  (IF s.nState = POOL_STATE_ACCEPTING_ENTRIES
   THEN OffendersAccepting(s, s.vecSessionCollaterals) ELSE <<>>)
  \o (IF s.nState = POOL_STATE_SIGNING
      THEN OffendersSigning(s.vecEntries) ELSE <<>>))

\* GetRandInt(100) > nLimit: what the comparison can come to, and the effect
\* that records the draw.
Above(nLimit) == { r > nLimit : r \in GetRandInt100 }

Draw(s, nLimit, fAbove) ==
  Emit(s, Ev("GetRandInt", 0, s.nSessionID, 100, nLimit, fAbove))

\* ChargeOffender as it would be without line 398.
ChargeOffenderEveryone(s0, vecOffendersCollaterals) ==
  Bind(s0, LAMBDA s :
  IF s.nState \in {POOL_STATE_ACCEPTING_ENTRIES, POOL_STATE_SIGNING}
  THEN { ConsumeCollateral(s, vecOffendersCollaterals[k])
         : k \in 1..Len(vecOffendersCollaterals) }
  ELSE {s})

\* ChargeFees, lines 391-407: with the offenders found.
ChargeOffender(s0, vecOffendersCollaterals) ==
  Bind(s0, LAMBDA s :
  Bind(Len(vecOffendersCollaterals), LAMBDA n :
    IF n >= Len(s.vecSessionCollaterals) THEN {s}
    ELSE IF s.nState \in {POOL_STATE_ACCEPTING_ENTRIES, POOL_STATE_SIGNING}
    THEN { ConsumeCollateral(s, vecOffendersCollaterals[k]) : k \in 1..n }
    ELSE {s}))

\* ChargeFees: the set of possible results, over the random draws and the
\* shuffle.  The "Offenders" effect records the offenders found (b) in the
\* session as it is (c).
ChargeFees(s0) ==
  Bind(s0, LAMBDA s :
  UNION {
    IF fAbove1 THEN {Draw(s, 33, TRUE)}
    ELSE Bind(Offenders(s), LAMBDA vecOffendersCollaterals :
         Bind(Emit(Draw(s, 33, FALSE),
                   Ev("Offenders", 0, s.nSessionID, s.nState,
                      vecOffendersCollaterals,
                      [vecSessionCollaterals |-> s.vecSessionCollaterals,
                       vecEntries |-> s.vecEntries])), LAMBDA s1 :
           IF vecOffendersCollaterals = <<>> THEN {s1}
           ELSE IF Len(vecOffendersCollaterals) >= Len(s.vecSessionCollaterals) - 1
           THEN UNION { IF fAbove2 THEN {Draw(s1, 33, TRUE)}
                        ELSE ChargeOffender(Draw(s1, 33, FALSE),
                                            vecOffendersCollaterals)
                        : fAbove2 \in Above(33) }
           ELSE ChargeOffender(s1, vecOffendersCollaterals)))
    : fAbove1 \in Above(33) })

\* ChargeRandomFees as it would be with "continue" for "return" in line 427.
RECURSIVE ChargeRandomFeesIndependent(_, _)
ChargeRandomFeesIndependent(s0, colls) ==
  Bind(s0, LAMBDA s :
  IF colls = <<>> THEN {s}
  ELSE UNION { IF fAbove
               THEN ChargeRandomFeesIndependent(Draw(s, 10, TRUE), Tail(colls))
               ELSE ChargeRandomFeesIndependent(
                      ConsumeCollateral(Draw(s, 10, FALSE), Head(colls)),
                      Tail(colls))
             : fAbove \in Above(10) })

\* ChargeRandomFees: walks the collaterals; the first draw above 10 ends it.
RECURSIVE ChargeRandomFeesFrom(_, _)
ChargeRandomFeesFrom(s0, colls) ==
  Bind(s0, LAMBDA s :
  IF colls = <<>> THEN {s}
  ELSE UNION { IF fAbove THEN {Draw(s, 10, TRUE)}
               ELSE ChargeRandomFeesFrom(
                      ConsumeCollateral(Draw(s, 10, FALSE), Head(colls)),
                      Tail(colls))
             : fAbove \in Above(10) })

ChargeRandomFees(s0) ==
  Bind(s0, LAMBDA s :
  ChargeRandomFeesFrom(s, s.vecSessionCollaterals))

\* ------------------------------------------------------ final transaction
\* CompareInputBIP69: by previous hash, then by previous index.
CompareInputBIP69(a, b) ==
  \/ a.prevout.hash < b.prevout.hash
  \/ a.prevout.hash = b.prevout.hash /\ a.prevout.n < b.prevout.n

\* CompareOutputBIP69: by amount, then by script.
CompareOutputBIP69(a, b) ==
  \/ a.nValue < b.nValue
  \/ a.nValue = b.nValue /\ a.scriptPubKey < b.scriptPubKey

\* sort(begin, end, cmp), as an insertion sort.
RECURSIVE InsertInput(_, _)
InsertInput(x, q0) ==
  Bind(q0, LAMBDA q :
  IF q = <<>> THEN <<x>>
  ELSE IF CompareInputBIP69(x, Head(q)) THEN <<x>> \o q
       ELSE <<Head(q)>> \o InsertInput(x, Tail(q)))

\* The sort of line 281 as it would be leaving the order alone.
Unsorted(q0) == q0

RECURSIVE SortInputs(_)
SortInputs(q0) ==
  Bind(q0, LAMBDA q :
  IF q = <<>> THEN <<>> ELSE InsertInput(Head(q), SortInputs(Tail(q))))

RECURSIVE InsertOutput(_, _)
InsertOutput(x, q0) ==
  Bind(q0, LAMBDA q :
  IF q = <<>> THEN <<x>>
  ELSE IF CompareOutputBIP69(x, Head(q)) THEN <<x>> \o q
       ELSE <<Head(q)>> \o InsertOutput(x, Tail(q)))

RECURSIVE SortOutputs(_)
SortOutputs(q0) ==
  Bind(q0, LAMBDA q :
  IF q = <<>> THEN <<>> ELSE InsertOutput(Head(q), SortOutputs(Tail(q))))

\* CreateFinalTransaction, lines 272-279: per entry, its outputs and inputs.
EntriesVout(entries) ==
  Concat([i \in 1..Len(entries) |-> entries[i].vecTxOut])

EntriesVin(entries) ==
  Concat([i \in 1..Len(entries) |->
            [j \in 1..Len(entries[i].vecTxDSIn) |-> AsTxIn(entries[i].vecTxDSIn[j])]])

\* CreateFinalTransaction as it would be without line 284
\* (finalMutableTransaction is not set).
CreateFinalTransactionUnstored(s0, conn) ==
  Bind(s0, LAMBDA s :
  LET txNew == [vin |-> SortInputs(EntriesVin(s.vecEntries)),
                vout |-> SortOutputs(EntriesVout(s.vecEntries))]
  IN Bind(SetState(s, POOL_STATE_SIGNING), LAMBDA s2 :
       RelayFinalTransaction(s2, txNew, conn)))

CreateFinalTransaction(s0, conn) ==
  Bind(s0, LAMBDA s :
  LET txNew == [vin |-> SortInputs(EntriesVin(s.vecEntries)),
                vout |-> SortOutputs(EntriesVout(s.vecEntries))]
      s1 == [s EXCEPT !.finalMutableTransaction = txNew]
  IN Bind(SetState(s1, POOL_STATE_SIGNING), LAMBDA s2 :
       RelayFinalTransaction(s2, s2.finalMutableTransaction, conn)))

\* IsSignaturesComplete as it would be looking at the first entry only.
IsSignaturesCompleteFirstEntry(s0) ==
  \/ s0.vecEntries = <<>>
  \/ \A j \in 1..Len(s0.vecEntries[1].vecTxDSIn) :
       s0.vecEntries[1].vecTxDSIn[j].fHasSig

\* IsSignaturesComplete
IsSignaturesComplete(s0) ==
  Bind(s0, LAMBDA s :
  \A i \in 1..Len(s.vecEntries) :
    \A j \in 1..Len(s.vecEntries[i].vecTxDSIn) : s.vecEntries[i].vecTxDSIn[j].fHasSig)

\* ------------------------------------------------ the index of signed txs
\* CTransaction::GetHash: the hash stands for the transaction it is of.
GetHash(tx) == <<"hash", tx>>

\* CPrivateSendBroadcastTx(tx, outpoint, sigTime)
CPrivateSendBroadcastTx(tx, outpoint, sigTime) ==
  [tx |-> tx, masternodeOutpoint |-> outpoint, sigTime |-> sigTime]

\* CPrivateSend::mapDSTX is process-wide: a set of (hash, record) pairs.
\* CPrivateSend::GetDSTX(hash): the record stored under the hash, if any.
GetDSTX(mapDSTX, hash) ==
  IF \E p \in mapDSTX : p[1] = hash
  THEN [fFound |-> TRUE, dstx |-> (CHOOSE p \in mapDSTX : p[1] = hash)[2]]
  ELSE [fFound |-> FALSE, dstx |-> CPrivateSendBroadcastTx(EmptyTx, "", "")]

\* CPrivateSend::AddDSTX(dstx): stores the record under its transaction's
\* hash unless the hash has a record already.
AddDSTX(mapDSTX, dstx) ==
  IF \E p \in mapDSTX : p[1] = GetHash(dstx.tx)
  THEN mapDSTX
  ELSE mapDSTX \cup { <<GetHash(dstx.tx), dstx>> }

\* The index as the commit can find it (other code adds the records that
\* arrive from the network): holding the record of another transaction, or
\* holding a record of this transaction already, made by another masternode
\* earlier.
IndexBefore(tx) ==
  { { <<GetHash(EmptyTx), CPrivateSendBroadcastTx(EmptyTx, "mn1", "earlier")>> },
    { <<GetHash(tx), CPrivateSendBroadcastTx(tx, "mn1", "earlier")>> } }

\* CommitFinalTransaction as it would be without lines 318-322: no record
\* is made.
CommitFinalTransactionWithoutRecord(s0, conn) ==
  Bind(s0, LAMBDA s :
  LET finalTransaction == s.finalMutableTransaction
      hashTx == GetHash(finalTransaction)
      atmp(fOk) == Ev("AcceptToMemoryPool", 0, s.nSessionID, "final",
                      [tx |-> finalTransaction, nState |-> s.nState,
                       vecEntries |-> s.vecEntries,
                       vecSessionCollaterals |-> s.vecSessionCollaterals], fOk)
      lockMain(fOk) == Ev("TRY_LOCK", 0, s.nSessionID, "cs_main",
                          [tx |-> finalTransaction, nState |-> s.nState,
                           vecEntries |-> s.vecEntries,
                           vecSessionCollaterals |-> s.vecSessionCollaterals], fOk)
      failed(sf) == RelayCompletedTransaction(SetNull(sf), "ERR_INVALID_TX", conn)
      s1 == Emit(s, atmp(TRUE))
      dstxNew == CPrivateSendBroadcastTx(finalTransaction, OwnOutpoint, "now")
      s2(mapDSTX) ==
        Emit(s1, Ev("GetDSTX", 0, s.nSessionID, hashTx, mapDSTX, mapDSTX))
      s3(mapDSTX) == Emit(s2(mapDSTX),
                          Ev("RelayInv", 0, s.nSessionID, "MSG_DSTX", hashTx, 0))
      s4(mapDSTX) == RelayCompletedTransaction(s3(mapDSTX), "MSG_SUCCESS", conn)
  IN { failed(Emit(s, lockMain(FALSE))), failed(Emit(s, atmp(FALSE))) }
     \cup UNION { { SetNull(s5) : s5 \in ChargeRandomFees(s4(mapDSTX)) }
                  : mapDSTX \in IndexBefore(finalTransaction) })

\* CommitFinalTransaction: the set of possible results, over
\* TRY_LOCK(cs_main), the mempool's answer and the random fees.  The
\* AcceptToMemoryPool effect records the session as it is at the call.
CommitFinalTransaction(s0, conn) ==
  Bind(s0, LAMBDA s :
  LET finalTransaction == s.finalMutableTransaction
      hashTx == GetHash(finalTransaction)
      atmp(fOk) == Ev("AcceptToMemoryPool", 0, s.nSessionID, "final",
                      [tx |-> finalTransaction, nState |-> s.nState,
                       vecEntries |-> s.vecEntries,
                       vecSessionCollaterals |-> s.vecSessionCollaterals], fOk)
      lockMain(fOk) == Ev("TRY_LOCK", 0, s.nSessionID, "cs_main",
                          [tx |-> finalTransaction, nState |-> s.nState,
                           vecEntries |-> s.vecEntries,
                           vecSessionCollaterals |-> s.vecSessionCollaterals], fOk)
      failed(sf) == RelayCompletedTransaction(SetNull(sf), "ERR_INVALID_TX", conn)
      s1 == Emit(s, atmp(TRUE))
      dstxNew == CPrivateSendBroadcastTx(finalTransaction, OwnOutpoint, "now")
      s2(mapDSTX) ==
        IF ~GetDSTX(mapDSTX, hashTx).fFound
        THEN Emit(s1, Ev("AddDSTX", 0, s.nSessionID, dstxNew, mapDSTX,
                         AddDSTX(mapDSTX, dstxNew)))
        ELSE Emit(s1, Ev("GetDSTX", 0, s.nSessionID, hashTx, mapDSTX, mapDSTX))
      s3(mapDSTX) == Emit(s2(mapDSTX),
                          Ev("RelayInv", 0, s.nSessionID, "MSG_DSTX", hashTx, 0))
      s4(mapDSTX) == RelayCompletedTransaction(s3(mapDSTX), "MSG_SUCCESS", conn)
  IN { failed(Emit(s, lockMain(FALSE))), failed(Emit(s, atmp(FALSE))) }
     \cup UNION { { SetNull(s5) : s5 \in ChargeRandomFees(s4(mapDSTX)) }
                  : mapDSTX \in IndexBefore(finalTransaction) })

\* CheckPool as it would be without HasTimedOut() in line 248.
CheckPoolWithoutTimeout(s0, conn) ==
  Bind(s0, LAMBDA s :
  IF /\ s.nState = POOL_STATE_ACCEPTING_ENTRIES
     /\ GetEntriesCount(s) = Len(s.vecSessionCollaterals)
  THEN {CreateFinalTransaction(s, conn)}
  ELSE IF /\ s.nState = POOL_STATE_ACCEPTING_ENTRIES
          /\ GetEntriesCount(s) >= MinPoolParticipants
  THEN { CreateFinalTransaction(s1, conn) : s1 \in ChargeFees(s) }
  ELSE IF s.nState = POOL_STATE_SIGNING /\ IsSignaturesComplete(s)
  THEN CommitFinalTransaction(s, conn)
  ELSE {s})

\* CheckPool: the set of possible results.
CheckPool(s0, conn) ==
  Bind(s0, LAMBDA s :
  IF /\ s.nState = POOL_STATE_ACCEPTING_ENTRIES
     /\ GetEntriesCount(s) = Len(s.vecSessionCollaterals)
  THEN {CreateFinalTransaction(s, conn)}
  ELSE IF /\ s.nState = POOL_STATE_ACCEPTING_ENTRIES
          /\ HasTimedOut(s)
          /\ GetEntriesCount(s) >= MinPoolParticipants
  THEN { CreateFinalTransaction(s1, conn) : s1 \in ChargeFees(s) }
  ELSE IF s.nState = POOL_STATE_SIGNING /\ IsSignaturesComplete(s)
  THEN CommitFinalTransaction(s, conn)
  ELSE {s})

\* ---------------------------------------------------------- entries (dsi)
\* CPrivateSend::DenominationToAmount, in units of 0.01 coin.
DenominationToAmount(nDenom) ==
  CASE nDenom = 1 -> 1000 [] nDenom = 2 -> 100 [] nDenom = 4 -> 10
    [] nDenom = 8 -> 1 [] OTHER -> 0

\* The coin an outpoint spends, as the coins view has it: its amount, 0 when
\* the coin is missing or spent.
CoinValue(prevout) == IF prevout.hash = 0 THEN 0 ELSE 1000

\* CPrivateSendBaseSession::IsValidInOuts: every output and every spent coin
\* is of the session's denomination and the amounts balance.
IsValidInOuts(s0, vin, vout) ==
  Bind(s0, LAMBDA s :
  LET nAmount == DenominationToAmount(s.nSessionDenom)
      bad(nMessageID, fConsume) ==
        [fResult |-> FALSE, nMessageID |-> nMessageID, fConsumeCollateral |-> fConsume]
  IN IF \E i \in 1..Len(vout) : vout[i].nValue # nAmount
     THEN bad("ERR_DENOM", TRUE)
     ELSE IF \E i \in 1..Len(vin) : CoinValue(vin[i].prevout) = 0
     THEN bad("ERR_MISSING_TX", FALSE)
     ELSE IF \E i \in 1..Len(vin) : CoinValue(vin[i].prevout) # nAmount
     THEN bad("ERR_DENOM", TRUE)
     ELSE IF Len(vin) # Len(vout)
     THEN bad("ERR_FEES", TRUE)
     ELSE [fResult |-> TRUE, nMessageID |-> "MSG_NOERR", fConsumeCollateral |-> FALSE])

\* The scan of lines 563-580 as it would be finding nothing.
AlreadyHaveNever(s0, entry) == FALSE

\* AddEntry, lines 563-580: some input of the entry is already in the pool.
AlreadyHave(s0, entry) ==
  Bind(s0, LAMBDA s :
  \E k \in 1..Len(entry.vecTxDSIn) :
    \E i \in 1..Len(s.vecEntries) :
      \E j \in 1..Len(s.vecEntries[i].vecTxDSIn) :
        s.vecEntries[i].vecTxDSIn[j].prevout = entry.vecTxDSIn[k].prevout)

\* AddEntry as it would be charging the collateral of an entry with a coin of
\* the pool (line 575 says: do not punish).
AddEntryPunishDuplicate(s0, entry) ==
  Bind(s0, LAMBDA s :
  IF GetEntriesCount(s) >= Len(s.vecSessionCollaterals)
  THEN Result(s, FALSE, "ERR_ENTRIES_FULL")
  ELSE IF ~IsCollateralValid(entry.txCollateral)
  THEN Result(s, FALSE, "ERR_INVALID_COLLATERAL")
  ELSE IF Len(entry.vecTxDSIn) > PRIVATESEND_ENTRY_MAX_SIZE
  THEN Result(ConsumeCollateral(s, entry.txCollateral), FALSE, "ERR_MAXIMUM")
  ELSE IF AlreadyHave(s, entry)
  THEN Result(ConsumeCollateral(s, entry.txCollateral), FALSE,
              "ERR_ALREADY_HAVE")
  ELSE LET vin == [k \in 1..Len(entry.vecTxDSIn) |-> AsTxIn(entry.vecTxDSIn[k])]
           v == IsValidInOuts(s, vin, entry.vecTxOut)
       IN IF ~v.fResult
          THEN IF v.fConsumeCollateral
               THEN Result(ConsumeCollateral(s, entry.txCollateral), FALSE,
                           v.nMessageID)
               ELSE Result(s, FALSE, v.nMessageID)
          ELSE Result([s EXCEPT !.vecEntries = Append(@, entry)],
                      TRUE, "MSG_ENTRIES_ADDED"))

\* AddEntry as it would be refusing an entry of PRIVATESEND_ENTRY_MAX_SIZE
\* inputs for its size (line 556 with >= for >).
AddEntrySizeOffByOne(s0, entry) ==
  Bind(s0, LAMBDA s :
  IF GetEntriesCount(s) >= Len(s.vecSessionCollaterals)
  THEN Result(s, FALSE, "ERR_ENTRIES_FULL")
  ELSE IF ~IsCollateralValid(entry.txCollateral)
  THEN Result(s, FALSE, "ERR_INVALID_COLLATERAL")
  ELSE IF Len(entry.vecTxDSIn) >= PRIVATESEND_ENTRY_MAX_SIZE
  THEN Result(ConsumeCollateral(s, entry.txCollateral), FALSE, "ERR_MAXIMUM")
  ELSE IF AlreadyHave(s, entry)
  THEN Result(s, FALSE, "ERR_ALREADY_HAVE")
  ELSE LET vin == [k \in 1..Len(entry.vecTxDSIn) |-> AsTxIn(entry.vecTxDSIn[k])]
           v == IsValidInOuts(s, vin, entry.vecTxOut)
       IN IF ~v.fResult
          THEN IF v.fConsumeCollateral
               THEN Result(ConsumeCollateral(s, entry.txCollateral), FALSE,
                           v.nMessageID)
               ELSE Result(s, FALSE, v.nMessageID)
          ELSE Result([s EXCEPT !.vecEntries = Append(@, entry)],
                      TRUE, "MSG_ENTRIES_ADDED"))

\* CPrivateSendServer::AddEntry, lines 540-597.
AddEntry(s0, entry) ==
  Bind(s0, LAMBDA s :
  IF GetEntriesCount(s) >= Len(s.vecSessionCollaterals)
  THEN Result(s, FALSE, "ERR_ENTRIES_FULL")
  ELSE IF ~IsCollateralValid(entry.txCollateral)
  THEN Result(s, FALSE, "ERR_INVALID_COLLATERAL")
  ELSE IF Len(entry.vecTxDSIn) > PRIVATESEND_ENTRY_MAX_SIZE
  THEN Result(ConsumeCollateral(s, entry.txCollateral), FALSE, "ERR_MAXIMUM")
  ELSE IF AlreadyHave(s, entry)
  THEN Result(s, FALSE, "ERR_ALREADY_HAVE")
  ELSE LET vin == [k \in 1..Len(entry.vecTxDSIn) |-> AsTxIn(entry.vecTxDSIn[k])]
           v == IsValidInOuts(s, vin, entry.vecTxOut)
       IN IF ~v.fResult
          THEN IF v.fConsumeCollateral
               THEN Result(ConsumeCollateral(s, entry.txCollateral), FALSE,
                           v.nMessageID)
               ELSE Result(s, FALSE, v.nMessageID)
          ELSE Result([s EXCEPT !.vecEntries = Append(@, entry)],
                      TRUE, "MSG_ENTRIES_ADDED"))

\* ProcessMessage, DSVIN, as it would be turning away a peer of exactly the
\* least version (line 162 with <= for <).
ProcessDSVINGateOffByOne(s0, pfrom, nVersion, entry, conn) ==
  Bind(Received(s0, "DSVIN", pfrom, nVersion, entry), LAMBDA s :
  IF nVersion <= MIN_PRIVATESEND_PEER_PROTO_VERSION
  THEN {PushStatus(PushReject(s, pfrom, "dsi"), pfrom, STATUS_REJECTED, "ERR_VERSION")}
  ELSE IF ~IsSessionReady(s)
  THEN {PushStatus(s, pfrom, STATUS_REJECTED, "ERR_SESSION")}
  ELSE Bind(AddEntry(s, [entry EXCEPT !.addr = pfrom]), LAMBDA r :
          IF r.fResult
          THEN { RelayStatus(s2, STATUS_ACCEPTED, "MSG_NOERR", conn)
                 : s2 \in CheckPool(PushStatus(r.s, pfrom, STATUS_ACCEPTED,
                                               r.nMessageID), conn) }
          ELSE {PushStatus(r.s, pfrom, STATUS_REJECTED, r.nMessageID)}))

\* ProcessMessage, DSVIN: the set of possible results.
ProcessDSVIN(s0, pfrom, nVersion, entry, conn) ==
  Bind(Received(s0, "DSVIN", pfrom, nVersion, entry), LAMBDA s :
  IF nVersion < MIN_PRIVATESEND_PEER_PROTO_VERSION
  THEN {PushStatus(PushReject(s, pfrom, "dsi"), pfrom, STATUS_REJECTED, "ERR_VERSION")}
  ELSE IF ~IsSessionReady(s)
  THEN {PushStatus(s, pfrom, STATUS_REJECTED, "ERR_SESSION")}
  ELSE Bind(AddEntry(s, [entry EXCEPT !.addr = pfrom]), LAMBDA r :
          IF r.fResult
          THEN { RelayStatus(s2, STATUS_ACCEPTED, "MSG_NOERR", conn)
                 : s2 \in CheckPool(PushStatus(r.s, pfrom, STATUS_ACCEPTED,
                                               r.nMessageID), conn) }
          ELSE {PushStatus(r.s, pfrom, STATUS_REJECTED, r.nMessageID)}))

\* ------------------------------------------------------- signatures (dss)
\* The scripts that VerifyScript accepts for an outpoint: the owner's
\* signature, and another signature of the owner's; any other fails.
ValidSig(prevout) == 10 * prevout.hash + prevout.n + 1

AnotherSig(prevout) == 1000 + ValidSig(prevout)

VerifyScript(scriptSig, prevout) ==
  scriptSig \in {ValidSig(prevout), AnotherSig(prevout)}

\* IsInputScriptSigValid: an input of the pool has the prevout and the
\* script verifies for it.
IsInputScriptSigValid(s0, txin) ==
  Bind(s0, LAMBDA s :
  /\ \E i \in 1..Len(s.vecEntries) :
       \E j \in 1..Len(s.vecEntries[i].vecTxDSIn) :
         s.vecEntries[i].vecTxDSIn[j].prevout = txin.prevout
  /\ VerifyScript(txin.scriptSig, txin.prevout))

\* CPrivateSendEntry::AddScriptSig: the first input with the prevout and the
\* sequence gets the script, unless it is signed already.
EntryMatch(entry, txin) ==
  {j \in 1..Len(entry.vecTxDSIn) :
     /\ entry.vecTxDSIn[j].prevout = txin.prevout
     /\ entry.vecTxDSIn[j].nSequence = txin.nSequence}

EntryCanAddScriptSig(entry, txin) ==
  /\ EntryMatch(entry, txin) # {}
  /\ LET j == CHOOSE m \in EntryMatch(entry, txin) :
                \A k \in EntryMatch(entry, txin) : m <= k
     IN ~entry.vecTxDSIn[j].fHasSig

EntryAddScriptSig(entry, txin) ==
  IF ~EntryCanAddScriptSig(entry, txin) THEN entry
  ELSE LET j == CHOOSE m \in EntryMatch(entry, txin) :
                   \A k \in EntryMatch(entry, txin) : m <= k
       IN [entry EXCEPT !.vecTxDSIn[j].scriptSig = txin.scriptSig,
                        !.vecTxDSIn[j].fHasSig = TRUE]

\* CPrivateSendServer::AddScriptSig
AddScriptSig(s0, txinNew) ==
  Bind(s0, LAMBDA s :
  IF \E i \in 1..Len(s.vecEntries) :
       \E j \in 1..Len(s.vecEntries[i].vecTxDSIn) :
         s.vecEntries[i].vecTxDSIn[j].scriptSig = txinNew.scriptSig
  THEN Result(s, FALSE, 0)
  ELSE IF ~IsInputScriptSigValid(s, txinNew) THEN Result(s, FALSE, 0)
  ELSE LET vin == s.finalMutableTransaction.vin
           vinNew == [k \in 1..Len(vin) |->
                        IF /\ vin[k].prevout = txinNew.prevout
                           /\ vin[k].nSequence = txinNew.nSequence
                        THEN [vin[k] EXCEPT !.scriptSig = txinNew.scriptSig]
                        ELSE vin[k]]
           s1 == [s EXCEPT !.finalMutableTransaction.vin = vinNew]
           hits == {i \in 1..Len(s.vecEntries) :
                      EntryCanAddScriptSig(s.vecEntries[i], txinNew)}
       IN IF hits = {} THEN Result(s1, FALSE, 0)
          ELSE LET i == CHOOSE m \in hits : \A k \in hits : m <= k
               IN Result([s1 EXCEPT !.vecEntries[i] =
                                       EntryAddScriptSig(s.vecEntries[i], txinNew)],
                         TRUE, 0))

\* ProcessDSSInputs as it would be without line 211 (no status is relayed
\* when AddScriptSig fails).
RECURSIVE ProcessDSSInputsSilent(_, _, _)
ProcessDSSInputsSilent(s0, vecTxIn, conn) ==
  Bind(s0, LAMBDA s :
  IF vecTxIn = <<>> THEN CheckPool(s, conn)
  ELSE Bind(AddScriptSig(s, Head(vecTxIn)), LAMBDA r :
          IF ~r.fResult
          THEN {r.s}
          ELSE ProcessDSSInputsSilent(r.s, Tail(vecTxIn), conn)))

\* ProcessMessage, DSSIGNFINALTX: the inputs in order; the first that
\* AddScriptSig refuses ends the handler with a rejected status to all.
RECURSIVE ProcessDSSInputs(_, _, _)
ProcessDSSInputs(s0, vecTxIn, conn) ==
  Bind(s0, LAMBDA s :
  IF vecTxIn = <<>> THEN CheckPool(s, conn)
  ELSE Bind(AddScriptSig(s, Head(vecTxIn)), LAMBDA r :
          IF ~r.fResult
          THEN {RelayStatus(r.s, STATUS_REJECTED, "MSG_NOERR", conn)}
          ELSE ProcessDSSInputs(r.s, Tail(vecTxIn), conn)))

ProcessDSSIGNFINALTX(s0, pfrom, nVersion, vecTxIn, conn) ==
  Bind(s0, LAMBDA s :
  IF nVersion < MIN_PRIVATESEND_PEER_PROTO_VERSION
  THEN {PushReject(s, pfrom, "dss")}
  ELSE ProcessDSSInputs(s, vecTxIn, conn))

\* ------------------------------------------------------- maintenance tick
\* CPrivateSendQueue::IsExpired
IsExpired(dsq) == dsq.nTime > PRIVATESEND_QUEUE_TIMEOUT

\* CPrivateSendBaseManager::CheckQueue: drops the expired advertisements.
CheckQueue(s0) ==
  Bind(s0, LAMBDA s :
  [s EXCEPT !.vecPrivateSendQueue = SelectSeq(@, LAMBDA q : ~IsExpired(q))])

\* CheckForCompleteQueue as it would be moving on to POOL_STATE_SIGNING.
CheckForCompleteQueueToSigning(s0, fSigned) ==
  Bind(s0, LAMBDA s :
  IF s.nState = POOL_STATE_QUEUE /\ IsSessionReady(s)
  THEN Bind(SetState(s, POOL_STATE_SIGNING), LAMBDA s1 :
         LET dsq == Sign(CPrivateSendQueue(s1.nSessionDenom, OwnOutpoint, 0, TRUE),
                         fSigned)
         IN Relay(s1, dsq))
  ELSE s)

CheckForCompleteQueue(s0, fSigned) ==
  Bind(s0, LAMBDA s :
  IF s.nState = POOL_STATE_QUEUE /\ IsSessionReady(s)
  THEN Bind(SetState(s, POOL_STATE_ACCEPTING_ENTRIES), LAMBDA s1 :
         LET dsq == Sign(CPrivateSendQueue(s1.nSessionDenom, OwnOutpoint, 0, TRUE),
                         fSigned)
         IN Relay(s1, dsq))
  ELSE s)

\* CheckTimeout as it would be without lines 470-471 (no fees, no reset).
CheckTimeoutWithoutReset(s0) == {CheckQueue(s0)}

\* CheckTimeout: the set of possible results.
CheckTimeout(s0) ==
  Bind(s0, LAMBDA s :
  Bind(CheckQueue(s), LAMBDA s1 :
     IF ~HasTimedOut(s1) THEN {s1}
     ELSE { SetNull(s2) :
              s2 \in ChargeFees(Emit(s1, Ev("TimedOut", 0, s1.nSessionID, s1.nState,
                        [vecEntries |-> s1.vecEntries,
                         vecSessionCollaterals |-> s1.vecSessionCollaterals],
                        0))) }))

\* DoMaintenance as it would be with CheckTimeout before CheckPool.
DoMaintenanceTimeoutFirst(s0, conn, fSigned) ==
  Bind(s0, LAMBDA s :
  UNION { CheckPool(s2, conn)
          : s2 \in CheckTimeout(CheckForCompleteQueue(s, fSigned)) })

\* DoMaintenance: the set of possible results.
DoMaintenance(s0, conn, fSigned) ==
  Bind(s0, LAMBDA s :
  UNION { CheckTimeout(s2)
          : s2 \in CheckPool(CheckForCompleteQueue(s, fSigned), conn) })

\* ------------------------------------------------------ what peers send
Peers == {1, 2, 3}
Masternodes == {OwnOutpoint, "mn1"}

Obsolete == MIN_PRIVATESEND_PEER_PROTO_VERSION - 1
UpToDate == MIN_PRIVATESEND_PEER_PROTO_VERSION

\* A peer's collateral; the inputs of peer 2's are spent already.
CollateralOf(pfrom) == Collateral(pfrom, TRUE, pfrom = 2)

Dsa(pfrom, nVersion, nDenom, txCollateral) ==
  [pfrom |-> pfrom, nVersion |-> nVersion,
   dsa |-> [nDenom |-> nDenom, txCollateral |-> txCollateral]]

\* The dsa messages: every peer asks for denomination 1 with its collateral,
\* and peer 3 also from an obsolete version.
DsaMessages ==
  { Dsa(p, UpToDate, 1, CollateralOf(p)) : p \in Peers }
  \cup { Dsa(3, Obsolete, 1, CollateralOf(3)) }

\* Requests that cannot be granted: peer 3 asks for a denomination that does
\* not exist and with a collateral that is not valid, and peer 2 asks for
\* denomination 2.
OtherDsaMessages ==
  { Dsa(3, UpToDate, 3, CollateralOf(3)),
    Dsa(3, UpToDate, 1, Collateral(3, FALSE, FALSE)),
    Dsa(2, UpToDate, 2, CollateralOf(2)) }

Ins(outpoints) == [k \in 1..Len(outpoints) |-> CTxDSIn(TxIn(outpoints[k]))]

Dsi(pfrom, nVersion, txCollateral, outpoints, vout) ==
  [pfrom |-> pfrom, nVersion |-> nVersion,
   entry |-> [addr |-> 0, txCollateral |-> txCollateral,
              vecTxDSIn |-> Ins(outpoints), vecTxOut |-> vout]]

\* The coins of peer 1, in no order.
Coins1 == <<OutPoint(2, 0), OutPoint(1, 5), OutPoint(4, 1)>>

\* One output of the denomination per coin, to scripts from nFirst on.
Outs(nCoins, nFirst) == [k \in 1..nCoins |-> TxOut(1000, nFirst + nCoins - k)]

\* The dsi messages: every peer's entry, which it may send again (peer 1
\* offers three coins, peer 3 two); peer 3 also with a coin of another
\* denomination.
DsiMessages ==
  { Dsi(1, UpToDate, CollateralOf(1), Coins1, Outs(Len(Coins1), 10)),
    Dsi(2, UpToDate, CollateralOf(2), <<OutPoint(1, 1)>>, <<TxOut(1000, 2)>>),
    Dsi(3, UpToDate, CollateralOf(3), <<OutPoint(3, 2), OutPoint(3, 0)>>,
        Outs(2, 4)),
    Dsi(3, UpToDate, CollateralOf(3), <<OutPoint(3, 1)>>, <<TxOut(100, 6)>>) }

\* Peer 3 offers a coin of its own with the collateral of peer 1, which it
\* has seen on the wire.
BorrowedDsiMessages ==
  { Dsi(3, UpToDate, CollateralOf(1), <<OutPoint(3, 2)>>, Outs(1, 4)) }

\* As many coins as an entry may hold, and one more.
CoinsMax == [k \in 1..PRIVATESEND_ENTRY_MAX_SIZE |-> OutPoint(4, k)]

CoinsOver == CoinsMax \o <<OutPoint(5, 0)>>

\* Large entries: peer 1's with PRIVATESEND_ENTRY_MAX_SIZE coins and with one
\* more; peer 2's with one coin, also from an obsolete version; peer 3's with
\* one of the coins of peer 1.
LargeDsiMessages ==
  { Dsi(1, UpToDate, CollateralOf(1), CoinsMax, Outs(Len(CoinsMax), 10)),
    Dsi(1, UpToDate, CollateralOf(1), CoinsOver, Outs(Len(CoinsOver), 10)),
    Dsi(2, UpToDate, CollateralOf(2), <<OutPoint(1, 1)>>, <<TxOut(1000, 2)>>),
    Dsi(3, UpToDate, CollateralOf(3), <<OutPoint(4, 3)>>, <<TxOut(1000, 7)>>),
    Dsi(2, Obsolete, CollateralOf(2), <<OutPoint(1, 1)>>, <<TxOut(1000, 2)>>) }

Dsq(pfrom, nVersion, outpoint, nAge, fReady, vchSig) ==
  [pfrom |-> pfrom, nVersion |-> nVersion,
   dsq |-> [nDenom |-> 1, masternodeOutpoint |-> outpoint, nTime |-> nAge,
            fReady |-> fReady, vchSig |-> vchSig]]

\* The dsq messages peer 1 passes on: of the masternode mn1 just made, not
\* ready and ready, with its signature and with none; of mn1 out of the time
\* window, behind and ahead, without a signature; of a masternode that is not
\* in the list; the own one; and one from a peer of an obsolete version.
DsqMessages ==
  { Dsq(1, UpToDate, "mn1", 0, fReady, vchSig)
      : fReady \in BOOLEAN, vchSig \in {"mn1", "none"} }
  \cup { Dsq(1, UpToDate, "mn1", nAge, FALSE, "none")
           : nAge \in {PRIVATESEND_QUEUE_TIMEOUT + 1,
                       0 - (PRIVATESEND_QUEUE_TIMEOUT + 1)} }
  \cup { Dsq(1, UpToDate, "mnX", 0, FALSE, "mnX"),
         Dsq(1, UpToDate, OwnOutpoint, 0, FALSE, OwnOutpoint),
         Dsq(1, Obsolete, "mn1", 0, FALSE, "mn1") }

Signed(prevout) == [prevout |-> prevout, scriptSig |-> ValidSig(prevout), nSequence |-> 0]

Dss(pfrom, nVersion, vecTxIn) ==
  [pfrom |-> pfrom, nVersion |-> nVersion, vecTxIn |-> vecTxIn]

\* The dss messages: every peer's signatures, and a script that does not
\* verify.
DssMessages ==
  { Dss(1, UpToDate, [k \in DOMAIN Coins1 |-> Signed(Coins1[k])]),
    Dss(2, UpToDate, <<Signed(OutPoint(1, 1))>>),
    Dss(3, UpToDate, <<Signed(OutPoint(3, 2)), Signed(OutPoint(3, 0))>>),
    Dss(2, UpToDate, <<[Signed(OutPoint(1, 1)) EXCEPT !.scriptSig = 99]>>) }

\* Peer 2 and peer 1 sign a coin of theirs once more, with another
\* signature.
SignedAgain(prevout) == [Signed(prevout) EXCEPT !.scriptSig = AnotherSig(prevout)]

DssAgainMessages ==
  { Dss(2, UpToDate, <<SignedAgain(OutPoint(1, 1))>>),
    Dss(1, UpToDate, <<SignedAgain(Coins1[1])>>) }

\* The nodes connected while a handler runs: everybody, or everybody but
\* peer 2.
ConnChoices == {Peers, Peers \ {2}}

\* ---------------------------------------------------------------- actions
Init ==
  /\ nState = POOL_STATE_IDLE
  /\ nSessionID = 0
  /\ nSessionDenom = 0
  /\ vecSessionCollaterals = <<>>
  /\ vecEntries = <<>>
  /\ finalMutableTransaction = EmptyTx
  /\ nElapsed = 0
  /\ vecPrivateSendQueue = <<>>
  /\ nDsqCount = 0
  /\ nLastDsq = [m \in Masternodes |-> 0]
  /\ outbox = <<>>
  /\ handler = "none"
  /\ pc = [th \in Threads |-> "idle"]
  /\ cs_vecqueue = "free"

\* A dsa message arrives (peer 1 is the first to ask, and a participant
\* asks once per session).  fDmn: the own masternode is in the valid list;
\* fLockRecv: TRY_LOCK(cs_vecqueue).
DSACCEPT ==
  \E m \in DsaMessages :
    /\ handler' = "DSACCEPT"
    /\ UNCHANGED threads
    /\ vecSessionCollaterals = <<>> => m.pfrom = 1
    /\ \A i \in 1..Len(vecSessionCollaterals) :
         vecSessionCollaterals[i].hash # m.dsa.txCollateral.hash
    /\ \E fDmn \in BOOLEAN,
          fLockRecv \in (IF vecSessionCollaterals = <<>> THEN BOOLEAN ELSE {TRUE}),
          nRand \in (IF nSessionID = 0 THEN 1..MaxSessionID ELSE {1}) :
         Becomes(ProcessDSACCEPT(Cur, m.pfrom, m.nVersion, m.dsa, fDmn, fLockRecv,
                                 nRand, TRUE))

\* A dsa message arrives from any peer at any time, also from a peer that
\* has asked before in the session.
DSACCEPTAny ==
  \E m \in DsaMessages :
    /\ handler' = "DSACCEPT"
    /\ UNCHANGED threads
    /\ \E fDmn \in BOOLEAN,
          fLockRecv \in (IF vecSessionCollaterals = <<>> THEN BOOLEAN ELSE {TRUE}),
          nRand \in (IF nSessionID = 0 THEN 1..MaxSessionID ELSE {1}) :
         Becomes(ProcessDSACCEPT(Cur, m.pfrom, m.nVersion, m.dsa, fDmn, fLockRecv,
                                 nRand, TRUE))

\* A dsa message arrives as in DSACCEPT; the signing of the advertisement of
\* a new session may fail.
DSACCEPTMaySign ==
  \E m \in DsaMessages :
    /\ handler' = "DSACCEPT"
    /\ UNCHANGED threads
    /\ vecSessionCollaterals = <<>> => m.pfrom = 1
    /\ \A i \in 1..Len(vecSessionCollaterals) :
         vecSessionCollaterals[i].hash # m.dsa.txCollateral.hash
    /\ \E fDmn \in BOOLEAN,
          fLockRecv \in (IF vecSessionCollaterals = <<>> THEN BOOLEAN ELSE {TRUE}),
          nRand \in (IF nSessionID = 0 THEN 1..MaxSessionID ELSE {1}),
          fSigned \in BOOLEAN :
         Becomes(ProcessDSACCEPT(Cur, m.pfrom, m.nVersion, m.dsa, fDmn, fLockRecv,
                                 nRand, fSigned))

\* A dsa message arrives that asks for another denomination or brings a bad
\* collateral.
DSACCEPTOther ==
  \E m \in OtherDsaMessages :
    /\ handler' = "DSACCEPT"
    /\ UNCHANGED threads
    /\ \E fDmn \in BOOLEAN,
          fLockRecv \in (IF vecSessionCollaterals = <<>> THEN BOOLEAN ELSE {TRUE}),
          nRand \in (IF nSessionID = 0 THEN 1..MaxSessionID ELSE {1}) :
         Becomes(ProcessDSACCEPT(Cur, m.pfrom, m.nVersion, m.dsa, fDmn, fLockRecv,
                                 nRand, TRUE))

\* A dsq message arrives.
DSQUEUE ==
  \E m \in DsqMessages, fLockRecv \in BOOLEAN, fLockRecv2 \in BOOLEAN :
    /\ handler' = "DSQUEUE"
    /\ UNCHANGED threads
    /\ nDsqCount < MaxDsqCount
    /\ Becomes(ProcessDSQUEUE(Cur, m.pfrom, m.nVersion, m.dsq, fLockRecv,
                              fLockRecv2))

\* A dsi message arrives.
DSVIN ==
  \E m \in DsiMessages, conn \in ConnChoices :
    /\ handler' = "DSVIN"
    /\ UNCHANGED threads
    /\ \E s \in ProcessDSVIN(Cur, m.pfrom, m.nVersion, m.entry, conn) : Becomes(s)

\* A dsi message with a large entry arrives.
DSVINLarge ==
  \E m \in LargeDsiMessages, conn \in ConnChoices :
    /\ handler' = "DSVIN"
    /\ UNCHANGED threads
    /\ \E s \in ProcessDSVIN(Cur, m.pfrom, m.nVersion, m.entry, conn) : Becomes(s)

\* A dsi message arrives that carries the collateral of another participant.
DSVINBorrowed ==
  \E m \in BorrowedDsiMessages, conn \in ConnChoices :
    /\ handler' = "DSVIN"
    /\ UNCHANGED threads
    /\ \E s \in ProcessDSVIN(Cur, m.pfrom, m.nVersion, m.entry, conn) : Becomes(s)

\* A dss message arrives.
DSSIGNFINALTX ==
  \E m \in DssMessages, conn \in ConnChoices :
    /\ handler' = "DSSIGNFINALTX"
    /\ UNCHANGED threads
    /\ \E s \in ProcessDSSIGNFINALTX(Cur, m.pfrom, m.nVersion, m.vecTxIn, conn) :
         Becomes(s)

\* A dss message arrives that signs a coin once more.
DSSIGNFINALTXAgain ==
  \E m \in DssAgainMessages, conn \in ConnChoices :
    /\ handler' = "DSSIGNFINALTX"
    /\ UNCHANGED threads
    /\ \E s \in ProcessDSSIGNFINALTX(Cur, m.pfrom, m.nVersion, m.vecTxIn, conn) :
         Becomes(s)

\* The maintenance tick runs (masternode mode, chain synced, no shutdown).
Tick ==
  /\ handler' = "DoMaintenance"
  /\ UNCHANGED threads
  /\ \E conn \in ConnChoices :
       \E s \in DoMaintenance(Cur, conn, TRUE) : Becomes(s)

\* The maintenance tick runs; the signing of the advertisement of a session
\* that is ready may fail.
TickMaySign ==
  /\ handler' = "DoMaintenance"
  /\ UNCHANGED threads
  /\ \E conn \in ConnChoices, fSigned \in BOOLEAN :
       \E s \in DoMaintenance(Cur, conn, fSigned) : Becomes(s)

\* The maintenance tick runs while no peer is connected.
TickAlone ==
  /\ handler' = "DoMaintenance"
  /\ UNCHANGED threads
  /\ \E s \in DoMaintenance(Cur, {}, TRUE) : Becomes(s)

\* A message or a tick while the chain is not synced (or, for the tick,
\* shutdown is requested): the handler returns at once.
NotSynced ==
  /\ handler' = "none"
  /\ UNCHANGED threads
  /\ outbox' = <<>>
  /\ UNCHANGED <<nState, nSessionID, nSessionDenom, vecSessionCollaterals,
                 vecEntries, finalMutableTransaction, nElapsed,
                 vecPrivateSendQueue, nDsqCount, nLastDsq>>

\* The clock advances by TimeStep: the time since the last successful step
\* and the age of every advertisement grow.  Both are kept up to the first
\* value from which every comparison the code makes has the same result.
CurrentTimeout ==
  IF nState = POOL_STATE_IDLE THEN 0
  ELSE IF nState = POOL_STATE_SIGNING THEN PRIVATESEND_SIGNING_TIMEOUT
  ELSE PRIVATESEND_QUEUE_TIMEOUT

Older(nAge) == IF nAge > PRIVATESEND_QUEUE_TIMEOUT THEN nAge ELSE nAge + TimeStep

AdvanceTime ==
  /\ handler' = "none"
  /\ UNCHANGED threads
  /\ \/ nElapsed < CurrentTimeout
     \/ \E i \in 1..Len(vecPrivateSendQueue) : ~IsExpired(vecPrivateSendQueue[i])
  /\ nElapsed' = IF nElapsed + TimeStep > CurrentTimeout
                 THEN CurrentTimeout ELSE nElapsed + TimeStep
  /\ vecPrivateSendQueue' =
       [i \in 1..Len(vecPrivateSendQueue) |->
          [vecPrivateSendQueue[i] EXCEPT !.nTime = Older(@)]]
  /\ outbox' = <<>>
  /\ UNCHANGED <<nState, nSessionID, nSessionDenom, vecSessionCollaterals,
                 vecEntries, finalMutableTransaction, nDsqCount, nLastDsq>>

Next ==
  \/ DSACCEPT
  \/ DSVIN
  \/ DSSIGNFINALTX
  \/ Tick
  \/ NotSynced
  \/ AdvanceTime

Spec == Init /\ [][Next]_vars

\* The coordinator while entries are collected, large ones among them.
EntryNext ==
  \/ DSACCEPT
  \/ DSVINLarge
  \/ Tick
  \/ AdvanceTime

EntrySpec == Init /\ [][EntryNext]_vars

\* The coordinator while some requests to join cannot be granted.
RefuseNext ==
  \/ DSACCEPT
  \/ DSACCEPTOther
  \/ DSVIN
  \/ DSSIGNFINALTX
  \/ Tick
  \/ AdvanceTime

RefuseSpec == Init /\ [][RefuseNext]_vars

\* The coordinator while its connections may all be down at a tick.
GoneNext ==
  \/ DSACCEPT
  \/ DSVIN
  \/ DSSIGNFINALTX
  \/ Tick
  \/ TickAlone
  \/ AdvanceTime

GoneSpec == Init /\ [][GoneNext]_vars

\* The coordinator while participants may sign a coin more than once.
SignNext ==
  \/ DSACCEPT
  \/ DSVIN
  \/ DSSIGNFINALTX
  \/ DSSIGNFINALTXAgain
  \/ Tick
  \/ AdvanceTime

SignSpec == Init /\ [][SignNext]_vars

\* The coordinator while an entry may carry the collateral of another
\* participant.
BorrowNext ==
  \/ DSACCEPT
  \/ DSVIN
  \/ DSVINBorrowed
  \/ DSSIGNFINALTX
  \/ Tick
  \/ AdvanceTime

BorrowSpec == Init /\ [][BorrowNext]_vars

\* The coordinator while peers ask to join without restraint.
AcceptNext ==
  \/ DSACCEPTAny
  \/ DSVIN
  \/ Tick
  \/ AdvanceTime

AcceptSpec == Init /\ [][AcceptNext]_vars

\* The coordinator and the advertisements: its own, and those of others.
QueueNext ==
  \/ DSACCEPTMaySign
  \/ DSQUEUE
  \/ TickMaySign
  \/ AdvanceTime

QueueSpec == Init /\ [][QueueNext]_vars

\* ThreadCheckPrivateSendServer calls DoMaintenance once a second for as long
\* as the node runs, and time passes.
LiveSpec == Spec /\ WF_vars(Tick) /\ WF_vars(AdvanceTime)

\* ------------------------------------------------- the handlers as threads
\* The handlers step by step, as far as the locks they take are concerned:
\* the message handling thread runs a dsa or a dsq handler while the
\* scheduler thread runs the maintenance tick.  A handler's effect on the
\* server's fields takes place in its last step.  The file takes cs_vecqueue
\* around the scans and around the push_back of the dsq handler and no other
\* lock on the session; CheckQueue and SetNull of the base class hold
\* cs_vecqueue while they change the queue.
At(th, place) == pc[th] = place

Goto(th, place) == pc' = [pc EXCEPT ![th] = place]

\* dsa: the handler is entered and reads the session (IsSessionReady).
DsaEnter ==
  /\ At("msghand", "idle")
  /\ Goto("msghand", "dsa_checks")
  /\ UNCHANGED <<fields, cs_vecqueue>>

\* dsa, no session yet: TRY_LOCK(cs_vecqueue, lockRecv); the handler returns
\* if the lock is taken.
DsaTryLock ==
  /\ At("msghand", "dsa_checks")
  /\ vecSessionCollaterals = <<>>
  /\ IF cs_vecqueue = "free"
     THEN /\ cs_vecqueue' = "msghand"
          /\ Goto("msghand", "dsa_scan")
          /\ UNCHANGED fields
     ELSE /\ \E m \in DsaMessages, fDmn \in BOOLEAN :
               /\ m.pfrom = 1
               /\ Becomes(ProcessDSACCEPT(Cur, m.pfrom, m.nVersion, m.dsa, fDmn,
                                          FALSE, 1, TRUE))
          /\ handler' = "DSACCEPT"
          /\ Goto("msghand", "idle")
          /\ UNCHANGED cs_vecqueue

\* dsa: the queue has been scanned for an own advertisement and the block
\* of the lock is left.
DsaUnlock ==
  /\ At("msghand", "dsa_scan")
  /\ cs_vecqueue' = "free"
  /\ Goto("msghand", "dsa_session")
  /\ UNCHANGED fields

\* dsa, a session exists: no lock is taken.
DsaExisting ==
  /\ At("msghand", "dsa_checks")
  /\ vecSessionCollaterals # <<>>
  /\ Goto("msghand", "dsa_session")
  /\ UNCHANGED <<fields, cs_vecqueue>>

\* dsa: CreateNewSession or AddUserToExistingSession; a new session's
\* advertisement is pushed to the queue next.
DsaSession ==
  /\ At("msghand", "dsa_session")
  /\ \E m \in DsaMessages :
       /\ vecSessionCollaterals = <<>> => m.pfrom = 1
       /\ \A i \in 1..Len(vecSessionCollaterals) :
            vecSessionCollaterals[i].hash # m.dsa.txCollateral.hash
       /\ \E fDmn \in BOOLEAN,
             nRand \in (IF nSessionID = 0 THEN 1..MaxSessionID ELSE {1}) :
            Becomes(ProcessDSACCEPT(Cur, m.pfrom, m.nVersion, m.dsa, fDmn, TRUE,
                                    nRand, TRUE))
  /\ handler' = "DSACCEPT"
  /\ Goto("msghand", IF Len(vecPrivateSendQueue') > Len(vecPrivateSendQueue)
                     THEN "dsa_push" ELSE "idle")
  /\ UNCHANGED cs_vecqueue

\* dsa: vecPrivateSendQueue.push_back(dsq) of CreateNewSession is done.
DsaPushed ==
  /\ At("msghand", "dsa_push")
  /\ Goto("msghand", "idle")
  /\ UNCHANGED <<fields, cs_vecqueue>>

\* dsq: TRY_LOCK(cs_vecqueue, lockRecv); the handler returns if the lock is
\* taken.
DsqTryLock ==
  /\ At("msghand", "idle")
  /\ nDsqCount < MaxDsqCount
  /\ IF cs_vecqueue = "free"
     THEN /\ cs_vecqueue' = "msghand"
          /\ Goto("msghand", "dsq_scan")
          /\ UNCHANGED fields
     ELSE /\ \E m \in DsqMessages :
               Becomes(ProcessDSQUEUE(Cur, m.pfrom, m.nVersion, m.dsq, FALSE,
                                      FALSE))
          /\ handler' = "DSQUEUE"
          /\ UNCHANGED threads

\* dsq: the queue has been scanned and the block of the lock is left.
DsqUnlock ==
  /\ At("msghand", "dsq_scan")
  /\ cs_vecqueue' = "free"
  /\ Goto("msghand", "dsq_checks")
  /\ UNCHANGED fields

\* dsq: TRY_LOCK(cs_vecqueue, lockRecv) before the push_back; the handler
\* returns if the lock is taken.
DsqTryLockAgain ==
  /\ At("msghand", "dsq_checks")
  /\ IF cs_vecqueue = "free"
     THEN /\ cs_vecqueue' = "msghand"
          /\ Goto("msghand", "dsq_push")
          /\ UNCHANGED fields
     ELSE /\ \E m \in DsqMessages :
               Becomes(ProcessDSQUEUE(Cur, m.pfrom, m.nVersion, m.dsq, TRUE,
                                      FALSE))
          /\ handler' = "DSQUEUE"
          /\ Goto("msghand", "idle")
          /\ UNCHANGED cs_vecqueue

\* dsq: the advertisement is pushed and relayed, if it passed, and the lock
\* is released.
DsqPush ==
  /\ At("msghand", "dsq_push")
  /\ \E m \in DsqMessages :
       Becomes(ProcessDSQUEUE(Cur, m.pfrom, m.nVersion, m.dsq, TRUE, TRUE))
  /\ handler' = "DSQUEUE"
  /\ cs_vecqueue' = "free"
  /\ Goto("msghand", "idle")

\* tick: DoMaintenance is entered: CheckForCompleteQueue and CheckPool read
\* and write the session.
TickEnter ==
  /\ At("scheduler", "idle")
  /\ Goto("scheduler", "tick_session")
  /\ UNCHANGED <<fields, cs_vecqueue>>

\* tick: CheckTimeout calls CheckQueue, which takes cs_vecqueue.
TickLockQueue ==
  /\ At("scheduler", "tick_session")
  /\ cs_vecqueue = "free"
  /\ cs_vecqueue' = "scheduler"
  /\ Goto("scheduler", "tick_queue")
  /\ UNCHANGED fields

\* tick: the queue is swept, the session reset if it timed out, and the
\* tick is over.
TickDone ==
  /\ At("scheduler", "tick_queue")
  /\ \E conn \in ConnChoices :
       \E s \in DoMaintenance(Cur, conn, TRUE) : Becomes(s)
  /\ handler' = "DoMaintenance"
  /\ cs_vecqueue' = "free"
  /\ Goto("scheduler", "idle")

LockNext ==
  \/ DsaEnter
  \/ DsaTryLock
  \/ DsaUnlock
  \/ DsaExisting
  \/ DsaSession
  \/ DsaPushed
  \/ DsqTryLock
  \/ DsqUnlock
  \/ DsqTryLockAgain
  \/ DsqPush
  \/ TickEnter
  \/ TickLockQueue
  \/ TickDone
  \/ AdvanceTime

LockSpec == Init /\ [][LockNext]_vars

\* ------------------------------------------------------------- properties
\* The effects of the last handler that are of one kind.
Effects(type) == SelectSeq(outbox, LAMBDA e : e.type = type)

\* The status updates of the last handler that carry a message.
Statuses(nMessageID) ==
  SelectSeq(outbox, LAMBDA e : e.type = "dssu" /\ e.c = nMessageID)

\* C1: the session is Idle exactly when its id is 0.
C1_IdleIffNoSessionID == (nState = POOL_STATE_IDLE) <=> (nSessionID = 0)

\* A session with a non-zero id has just been reset.
C1_Witness ==
  /\ nState = POOL_STATE_IDLE
  /\ nSessionID = 0
  /\ \E i \in DOMAIN outbox :
       /\ outbox[i].type = "SetNull"
       /\ outbox[i].nSessionID # 0
       /\ outbox[i].a # POOL_STATE_IDLE

\* C2: the entries never outnumber the admitted collaterals.
C2_EntriesWithinCollaterals == Len(vecEntries) <= Len(vecSessionCollaterals)

\* Every admitted participant has an entry, and one more entry was refused.
C2_Witness ==
  /\ Len(vecEntries) > 0
  /\ Len(vecEntries) = Len(vecSessionCollaterals)
  /\ Statuses("ERR_ENTRIES_FULL") # <<>>

\* C3: every move to Signing is made from AcceptingEntries, with as many
\* entries as collaterals, or after the timeout of AcceptingEntries with at
\* least the minimum of entries.
C3_SigningOnlyWhenFullOrTimedOut ==
  \A i \in DOMAIN outbox :
    (outbox[i].type = "SetState" /\ outbox[i].b = POOL_STATE_SIGNING) =>
      /\ outbox[i].a = POOL_STATE_ACCEPTING_ENTRIES
      /\ \/ outbox[i].c.nEntries = outbox[i].c.nCollaterals
         \/ /\ outbox[i].c.nElapsed >= PRIVATESEND_QUEUE_TIMEOUT
            /\ outbox[i].c.nEntries >= MinPoolParticipants

\* A move to Signing after the timeout, with fewer entries than collaterals.
C3_Witness ==
  \E i \in DOMAIN outbox :
    /\ outbox[i].type = "SetState"
    /\ outbox[i].b = POOL_STATE_SIGNING
    /\ outbox[i].c.nEntries < outbox[i].c.nCollaterals
    /\ outbox[i].c.nElapsed >= PRIVATESEND_QUEUE_TIMEOUT

\* The positions (entry, input) of the inputs the pool holds.
InputPositions ==
  { p \in (DOMAIN vecEntries) \X (1..PRIVATESEND_ENTRY_MAX_SIZE) :
      p[2] <= Len(vecEntries[p[1]].vecTxDSIn) }

\* C4: no two inputs of distinct entries of the pool spend the same outpoint.
C4_EntriesInputsDisjoint ==
  \A p, q \in InputPositions :
    (p[1] # q[1]) =>
      vecEntries[p[1]].vecTxDSIn[p[2]].prevout
        # vecEntries[q[1]].vecTxDSIn[q[2]].prevout

\* The pool holds two entries and an entry with an input of the pool was
\* refused.
C4_Witness ==
  /\ Len(vecEntries) >= 2
  /\ Statuses("ERR_ALREADY_HAVE") # <<>>

\* C5: the final transaction is there exactly in Signing (and Success).
C5_FinalTxIffSigning ==
  (finalMutableTransaction # EmptyTx)
    <=> (nState \in {POOL_STATE_SIGNING, POOL_STATE_SUCCESS})

\* Signing, with a final transaction of three inputs or more.
C5_Witness ==
  /\ nState = POOL_STATE_SIGNING
  /\ Len(finalMutableTransaction.vin) >= 3
  /\ Len(finalMutableTransaction.vout) >= 3

\* The state changes of a handler, in order: SetState and SetNull.
StateChanges(box) ==
  SelectSeq(box, LAMBDA e : e.type = "SetState" \/ e.type = "SetNull")

\* One state change from a to b is one phase forward, or back to Idle.
AllowedChange(a, b) ==
  \/ a = POOL_STATE_IDLE /\ b = POOL_STATE_QUEUE
  \/ a = POOL_STATE_QUEUE /\ b = POOL_STATE_ACCEPTING_ENTRIES
  \/ a = POOL_STATE_ACCEPTING_ENTRIES /\ b = POOL_STATE_SIGNING
  \/ b = POOL_STATE_IDLE

\* The state changes of the step lead from nState to nState', each allowed,
\* each starting where the one before ended.
StepAlongPhases ==
  LET ch == StateChanges(outbox')
  IN /\ ch = <<>> => nState' = nState
     /\ ch # <<>> => ch[1].a = nState /\ ch[Len(ch)].b = nState'
     /\ \A i \in DOMAIN ch : AllowedChange(ch[i].a, ch[i].b)
     /\ \A i \in 1..(Len(ch) - 1) : ch[i + 1].a = ch[i].b
     /\ nState' \notin {POOL_STATE_ERROR, POOL_STATE_SUCCESS}

\* C6: the state only changes one phase forward (Idle, Queue,
\* AcceptingEntries, Signing) or back to Idle, and is never Error or Success.
C6_StateChangesAlongPhases == [][StepAlongPhases]_vars

\* One handler has gone from Queue to AcceptingEntries and on to Signing.
C6_Witness ==
  /\ nState = POOL_STATE_SIGNING
  /\ \E i, j \in DOMAIN outbox :
       /\ i < j
       /\ outbox[i].type = "SetState" /\ outbox[i].a = POOL_STATE_QUEUE
       /\ outbox[j].type = "SetState" /\ outbox[j].b = POOL_STATE_SIGNING

\* C7: every session eventually ends: the coordinator is Idle again.
C7_SessionEnds == (nState # POOL_STATE_IDLE) ~> (nState = POOL_STATE_IDLE)

\* The tick has ended a session in Signing that nobody completed.
C7_Witness ==
  /\ handler = "DoMaintenance"
  /\ nState = POOL_STATE_IDLE
  /\ Effects("AcceptToMemoryPool") = <<>>
  /\ \E i \in DOMAIN outbox :
       outbox[i].type = "SetNull" /\ outbox[i].a = POOL_STATE_SIGNING

\* How often x is in q.
Count(x, q) == Cardinality({i \in DOMAIN q : q[i] = x})

\* q holds what r holds, as often.
IsPermutation(q, r) ==
  /\ Len(q) = Len(r)
  /\ \A i \in DOMAIN q : Count(q[i], q) = Count(q[i], r)

\* An input without its script: the outpoint and the sequence.
Unsigned(txin) == [prevout |-> txin.prevout, nSequence |-> txin.nSequence]

UnsignedAll(vin) == [k \in DOMAIN vin |-> Unsigned(vin[k])]

\* C8: in Signing the final transaction holds the inputs and the outputs of
\* the entries, each as often, the inputs ascending by (hash, index) and the
\* outputs ascending by (amount, script).
C8_FinalTxSortedPermutation ==
  nState = POOL_STATE_SIGNING =>
    LET vin == finalMutableTransaction.vin
        vout == finalMutableTransaction.vout
    IN /\ IsPermutation(UnsignedAll(vin), UnsignedAll(EntriesVin(vecEntries)))
       /\ IsPermutation(vout, EntriesVout(vecEntries))
       /\ \A k \in 1..(Len(vin) - 1) :
            \/ vin[k].prevout.hash < vin[k + 1].prevout.hash
            \/ /\ vin[k].prevout.hash = vin[k + 1].prevout.hash
               /\ vin[k].prevout.n <= vin[k + 1].prevout.n
       /\ \A k \in 1..(Len(vout) - 1) :
            \/ vout[k].nValue < vout[k + 1].nValue
            \/ /\ vout[k].nValue = vout[k + 1].nValue
               /\ vout[k].scriptPubKey <= vout[k + 1].scriptPubKey

\* Signing with three entries that did not arrive in the order of the final
\* transaction.
C8_Witness ==
  /\ nState = POOL_STATE_SIGNING
  /\ Len(vecEntries) = 3
  /\ UnsignedAll(finalMutableTransaction.vin) # UnsignedAll(EntriesVin(vecEntries))
  /\ finalMutableTransaction.vout # EntriesVout(vecEntries)

\* The final transactions the last handler gave to the mempool.
FinalSubmissions ==
  SelectSeq(outbox, LAMBDA e : e.type = "AcceptToMemoryPool" /\ e.a = "final")

\* Every input of every entry has its signature.
AllSigned(entries) ==
  \A i \in DOMAIN entries :
    \A j \in DOMAIN entries[i].vecTxDSIn : entries[i].vecTxDSIn[j].fHasSig

\* C9: the final transaction goes to the mempool only in Signing with every
\* input of every entry signed, and once: the handler that submits it ends
\* the session.
C9_SubmitOnlySignedInSigning ==
  /\ Len(FinalSubmissions) <= 1
  /\ \A i \in DOMAIN FinalSubmissions :
       /\ FinalSubmissions[i].b.nState = POOL_STATE_SIGNING
       /\ FinalSubmissions[i].b.vecEntries # <<>>
       /\ AllSigned(FinalSubmissions[i].b.vecEntries)
       /\ nState = POOL_STATE_IDLE
       /\ nSessionID = 0

\* The mempool has accepted the final transaction of three entries.
C9_Witness ==
  \E i \in DOMAIN FinalSubmissions :
    /\ FinalSubmissions[i].c
    /\ Len(FinalSubmissions[i].b.vecEntries) = 3

\* The final transactions of the last handler that the mempool accepted.
Accepted == SelectSeq(FinalSubmissions, LAMBDA e : e.c)

\* The participants of the entries whose node the last handler did not find.
Gone == { Effects("ForNodeFailed")[i].to : i \in DOMAIN Effects("ForNodeFailed") }

\* The participants the last handler told that the session has succeeded.
ToldSuccess ==
  { Effects("dsc")[i].to : i \in { j \in DOMAIN Effects("dsc") :
        /\ Effects("dsc")[j].a = "MSG_SUCCESS"
        /\ Effects("dsc")[j].nSessionID # 0 } }

\* The handler has ended with the session reset.
IsReset ==
  /\ nState = POOL_STATE_IDLE
  /\ nSessionID = 0
  /\ vecSessionCollaterals = <<>>
  /\ vecEntries = <<>>
  /\ finalMutableTransaction = EmptyTx

\* C10: when the mempool has accepted the final transaction, the coordinator
\* relays the signed-tx record, sends Complete(SUCCESS) with the session's
\* non-zero id to every participant that has an entry (and whose node is
\* there to send to), and ends reset.
C10_SuccessToldToEveryParticipant ==
  \A i \in DOMAIN Accepted :
    /\ Effects("RelayInv") # <<>>
    /\ \A k \in DOMAIN Accepted[i].b.vecEntries :
         Accepted[i].b.vecEntries[k].addr \notin Gone
           => Accepted[i].b.vecEntries[k].addr \in ToldSuccess
    /\ IsReset

\* What the last handler did with the index of signed transactions: it
\* looked a hash up (a), in the index as it was (b), and left the index (c).
IndexUses ==
  SelectSeq(outbox, LAMBDA e : e.type = "AddDSTX" \/ e.type = "GetDSTX")

\* The records the index holds under a hash.
RecordsOf(mapDSTX, hash) == { p \in mapDSTX : p[1] = hash }

\* C11: when the mempool has accepted the final transaction, the index holds
\* exactly one record under the transaction's hash, a record of that
\* transaction, and GetDSTX finds it; what the index held before it still
\* holds, and adding a record under a hash that has one changes nothing.
C11_OneRecordPerAcceptedTx ==
  \A i \in DOMAIN Accepted :
    LET tx == Accepted[i].b.tx
        hashTx == GetHash(tx)
    IN /\ Len(IndexUses) = 1
       /\ Cardinality(RecordsOf(IndexUses[1].c, hashTx)) = 1
       /\ GetDSTX(IndexUses[1].c, hashTx).fFound
       /\ GetDSTX(IndexUses[1].c, hashTx).dstx.tx = tx
       /\ IndexUses[1].b \subseteq IndexUses[1].c
       /\ AddDSTX(IndexUses[1].c,
                  CPrivateSendBroadcastTx(tx, "mn1", "later")) = IndexUses[1].c

\* The mempool has accepted the final transaction and the commit has added
\* its record to an index that held another transaction's record.
C11_Witness ==
  /\ Accepted # <<>>
  /\ Effects("AddDSTX") # <<>>
  /\ Effects("AddDSTX")[1].b # {}
  /\ Effects("AddDSTX")[1].c # Effects("AddDSTX")[1].b

\* The final transactions of the last handler that the mempool refused.
Refused == SelectSeq(FinalSubmissions, LAMBDA e : ~e.c)

\* The participants the last handler sent a Complete message with a reason.
Told(nMessageID) ==
  { Effects("dsc")[i].to :
      i \in { j \in DOMAIN Effects("dsc") : Effects("dsc")[j].a = nMessageID } }

\* C12: when the mempool has refused the final transaction, the session is
\* reset to Idle and every participant that had an entry (and whose node is
\* there to send to) is sent Complete with the reason INVALID_TX.
C12_InvalidTxToldToEveryParticipant ==
  \A i \in DOMAIN Refused :
    /\ nState = POOL_STATE_IDLE
    /\ nSessionID = 0
    /\ \A k \in DOMAIN Refused[i].b.vecEntries :
         Refused[i].b.vecEntries[k].addr \notin Gone
           => Refused[i].b.vecEntries[k].addr \in Told("ERR_INVALID_TX")

\* The commits of the last handler that did not get the chain-state lock.
LockMisses ==
  SelectSeq(outbox, LAMBDA e : e.type = "TRY_LOCK" /\ e.a = "cs_main" /\ ~e.c)

\* C13: when the commit does not get the chain-state lock, it is put off:
\* the session stays in Signing with its entries, its collaterals and its
\* final transaction as they were.
C13_CommitDeferredWithoutLock ==
  \A i \in DOMAIN LockMisses :
    /\ nState = POOL_STATE_SIGNING
    /\ vecEntries = LockMisses[i].b.vecEntries
    /\ vecSessionCollaterals = LockMisses[i].b.vecSessionCollaterals
    /\ finalMutableTransaction = LockMisses[i].b.tx

\* The sessions the last handler has ended by timeout (a: the state they
\* were in, b: their entries and collaterals).
TimedOut == Effects("TimedOut")

\* The participants the last handler sent a Complete message.
ToldComplete == { Effects("dsc")[i].to : i \in DOMAIN Effects("dsc") }

\* C14: when a session ends by timeout, every participant of the session
\* (known by the address of its entry) is sent a Complete message, and the
\* session is reset to Idle.
C14_TimeoutToldToEveryParticipant ==
  \A i \in DOMAIN TimedOut :
    /\ nState = POOL_STATE_IDLE
    /\ \A k \in DOMAIN TimedOut[i].b.vecEntries :
         TimedOut[i].b.vecEntries[k].addr \in ToldComplete

\* The collaterals the last handler gave to the mempool.
CollateralSubmissions ==
  SelectSeq(outbox, LAMBDA e : e.type = "AcceptToMemoryPool" /\ e.a = "collateral")

\* The entries that have an input without a signature.
UnsignedEntries(entries) ==
  { k \in DOMAIN entries :
      \E j \in DOMAIN entries[k].vecTxDSIn : ~entries[k].vecTxDSIn[j].fHasSig }

\* Every random draw of the last handler came out as "charge".
DrawsForcedOn == \A i \in DOMAIN Effects("GetRandInt") : ~Effects("GetRandInt")[i].c

\* C15: when Signing times out with at least three participants of which
\* exactly one has left inputs unsigned, however many, and the draws come out
\* as "charge", the collateral of that participant and no other is given to
\* the mempool, and the session is reset to Idle.
C15_OneNonSignerCharged ==
  \A i \in DOMAIN TimedOut :
    LET entries == TimedOut[i].b.vecEntries
    IN (/\ TimedOut[i].a = POOL_STATE_SIGNING
        /\ Len(TimedOut[i].b.vecSessionCollaterals) >= 3
        /\ Cardinality(UnsignedEntries(entries)) = 1
        /\ DrawsForcedOn)
       => /\ Len(CollateralSubmissions) = 1
          /\ \A k \in UnsignedEntries(entries) :
               CollateralSubmissions[1].b = entries[k].txCollateral
          /\ nState = POOL_STATE_IDLE

\* The offences ChargeFees found in the last handler (b: the offenders'
\* collaterals, one per offence; c: the session as it was).
Offences == Effects("Offenders")

\* The draws of ChargeFees in the last handler all came out as "charge".
ChargeForcedOn ==
  \A i \in DOMAIN Effects("GetRandInt") :
    Effects("GetRandInt")[i].b = 33 => ~Effects("GetRandInt")[i].c

RandomFeeDraws ==
  SelectSeq(outbox, LAMBDA e : e.type = "GetRandInt" /\ e.b = 10)

\* C17: after a successful completion ChargeRandomFees goes through the
\* collaterals as they were admitted and stops at the first it spares: the
\* collaterals given to the mempool are the first ones of the session, one
\* per draw that came out as "charge", and after a draw that spares there is
\* no further draw.
C17_RandomFeesChargeAPrefix ==
  \A i \in DOMAIN Accepted :
    LET colls == Accepted[i].b.vecSessionCollaterals
    IN /\ Len(CollateralSubmissions) <= Len(colls)
       /\ \A k \in DOMAIN CollateralSubmissions :
            /\ CollateralSubmissions[k].b = colls[k]
            /\ k <= Len(RandomFeeDraws) /\ ~RandomFeeDraws[k].c
       /\ Len(RandomFeeDraws) <= Len(CollateralSubmissions) + 1
       /\ Len(RandomFeeDraws) <= Len(colls)
       /\ Len(RandomFeeDraws) > Len(CollateralSubmissions)
            => RandomFeeDraws[Len(RandomFeeDraws)].c

\* The first of three collaterals is charged, the second spared, and the
\* third has no draw.
C17_Witness ==
  /\ Accepted # <<>>
  /\ Len(Accepted[1].b.vecSessionCollaterals) = 3
  /\ Len(CollateralSubmissions) = 1
  /\ Len(RandomFeeDraws) = 2

\* C17 as stated: every admitted collateral is decided by a draw of its own.
C17_EveryCollateralHasItsDraw ==
  \A i \in DOMAIN Accepted :
    Gone = {} => Len(RandomFeeDraws) = Len(Accepted[i].b.vecSessionCollaterals)


\* The dsi messages the last handler received (one, or none).
DsiReceived == Effects("DSVIN")

\* The messages the last handler sent.
Sent ==
  SelectSeq(outbox, LAMBDA e : e.type \in {"dssu", "reject", "dsq", "dsf", "dsc"})

\* The outpoints of the inputs of entries, and of one entry.
PoolCoins(entries) ==
  UNION { { entries[i].vecTxDSIn[j].prevout : j \in DOMAIN entries[i].vecTxDSIn }
          : i \in DOMAIN entries }

EntryCoins(entry) == { entry.vecTxDSIn[k].prevout : k \in DOMAIN entry.vecTxDSIn }

\* The entry of a received dsi spends a coin of an entry of the pool.
SpendsPoolCoin(e) == EntryCoins(e.a) \cap PoolCoins(e.b.vecEntries) # {}

\* A received dsi gets as far as the size check of AddEntry: its peer is up
\* to date, the session is ready for entries, the entries are not full and
\* the collateral is valid.
ReachesSizeCheck(e) ==
  /\ e.c >= MIN_PRIVATESEND_PEER_PROTO_VERSION
  /\ e.b.fSessionReady
  /\ Len(e.b.vecEntries) < Len(e.b.vecSessionCollaterals)
  /\ e.a.txCollateral.fValid

\* The last handler has answered the sender of e with a rejection for a
\* reason and sent nothing else.
RejectedOnly(e, nMessageID) ==
  /\ Len(Sent) = 1
  /\ Sent[1].type = "dssu"
  /\ Sent[1].to = e.to
  /\ Sent[1].b = STATUS_REJECTED
  /\ Sent[1].c = nMessageID

\* The session is as the handler of e has found it.
PoolUnchanged(e) ==
  /\ vecEntries = e.b.vecEntries
  /\ vecSessionCollaterals = e.b.vecSessionCollaterals
  /\ nState = e.b.nState

\* C18: an entry that gets past the entries-full, collateral and size checks
\* of a ready session and spends an outpoint of an entry of the pool is
\* answered Rejected/ALREADY_HAVE, to its sender only; entries, collaterals
\* and state stay as they were and no collateral goes to the mempool.
C18_DuplicateCoinRejectedUnpunished ==
  \A n \in DOMAIN DsiReceived :
    LET e == DsiReceived[n]
    IN (/\ ReachesSizeCheck(e)
        /\ Len(e.a.vecTxDSIn) <= PRIVATESEND_ENTRY_MAX_SIZE
        /\ SpendsPoolCoin(e))
       => /\ RejectedOnly(e, "ERR_ALREADY_HAVE")
          /\ PoolUnchanged(e)
          /\ CollateralSubmissions = <<>>

\* Peer 3's entry with a coin of peer 1's entry of the pool has been refused.
C18_Witness ==
  /\ DsiReceived # <<>>
  /\ DsiReceived[1].to = 3
  /\ ReachesSizeCheck(DsiReceived[1])
  /\ SpendsPoolCoin(DsiReceived[1])
  /\ \E i \in DOMAIN vecEntries : vecEntries[i].addr = 1
  /\ Statuses("ERR_ALREADY_HAVE") # <<>>
  /\ CollateralSubmissions = <<>>

\* C18 as stated: whatever else holds of it, an entry that spends an outpoint
\* of an entry of the pool is answered Rejected/ALREADY_HAVE, to its sender
\* only, the pool stays as it was and no collateral goes to the mempool.
C18_AnyDuplicateCoinRejectedUnpunished ==
  \A n \in DOMAIN DsiReceived :
    SpendsPoolCoin(DsiReceived[n])
    => /\ RejectedOnly(DsiReceived[n], "ERR_ALREADY_HAVE")
       /\ PoolUnchanged(DsiReceived[n])
       /\ CollateralSubmissions = <<>>


\* C19: of the entries that get past the entries-full and collateral checks,
\* one of exactly PRIVATESEND_ENTRY_MAX_SIZE inputs is not refused for its
\* size; one of PRIVATESEND_ENTRY_MAX_SIZE + 1 inputs is answered
\* Rejected/MAXIMUM, is not appended, and its collateral goes to the mempool.
C19_EntrySizeLimit ==
  \A n \in DOMAIN DsiReceived :
    LET e == DsiReceived[n]
    IN ReachesSizeCheck(e)
       => /\ (Len(e.a.vecTxDSIn) = PRIVATESEND_ENTRY_MAX_SIZE)
               => Statuses("ERR_MAXIMUM") = <<>>
          /\ (Len(e.a.vecTxDSIn) = PRIVATESEND_ENTRY_MAX_SIZE + 1)
               => /\ RejectedOnly(e, "ERR_MAXIMUM")
                  /\ vecEntries = e.b.vecEntries
                  /\ Len(CollateralSubmissions) = 1
                  /\ CollateralSubmissions[1].b = e.a.txCollateral

\* The pool holds an entry of PRIVATESEND_ENTRY_MAX_SIZE inputs, and an entry
\* of one input more has just been refused for its size.
C19_Witness ==
  /\ \E i \in DOMAIN vecEntries :
       Len(vecEntries[i].vecTxDSIn) = PRIVATESEND_ENTRY_MAX_SIZE
  /\ DsiReceived # <<>>
  /\ ReachesSizeCheck(DsiReceived[1])
  /\ Len(DsiReceived[1].a.vecTxDSIn) = PRIVATESEND_ENTRY_MAX_SIZE + 1
  /\ Statuses("ERR_MAXIMUM") # <<>>
  /\ CollateralSubmissions # <<>>


\* The dsa messages the last handler received (one, or none).
DsaReceived == Effects("DSACCEPT")

\* The session a dsa has found holds as many collaterals as a pool may have
\* participants, or is accepting entries.
FullOrAccepting(e) ==
  \/ Len(e.b.vecSessionCollaterals) >= MaxPoolParticipants
  \/ e.b.nState = POOL_STATE_ACCEPTING_ENTRIES

\* C20: a dsa of a peer of a current version that finds the session in Queue
\* with MaxPoolParticipants collaterals, or in AcceptingEntries, is answered
\* Rejected/QUEUE_FULL; a dsa that finds the session with MaxPoolParticipants
\* collaterals or in AcceptingEntries, in whatever state and of whatever
\* version, admits nobody; and the collaterals are never more than
\* MaxPoolParticipants.
C20_FullSessionAdmitsNobody ==
  /\ \A n \in DOMAIN DsaReceived :
       LET e == DsaReceived[n]
       IN FullOrAccepting(e)
          => /\ PoolUnchanged(e)
             /\ (/\ e.c >= MIN_PRIVATESEND_PEER_PROTO_VERSION
                 /\ e.b.nState \in {POOL_STATE_QUEUE, POOL_STATE_ACCEPTING_ENTRIES})
                => RejectedOnly(e, "ERR_QUEUE_FULL")
  /\ Len(vecSessionCollaterals) <= MaxPoolParticipants

\* A dsa has found the session in Queue with MaxPoolParticipants collaterals
\* and has been answered QUEUE_FULL.
C20_Witness ==
  /\ DsaReceived # <<>>
  /\ DsaReceived[1].b.nState = POOL_STATE_QUEUE
  /\ Len(DsaReceived[1].b.vecSessionCollaterals) = MaxPoolParticipants
  /\ Len(vecSessionCollaterals) = MaxPoolParticipants
  /\ Statuses("ERR_QUEUE_FULL") # <<>>

\* C20 as stated: every dsa that finds the session with MaxPoolParticipants
\* collaterals or in AcceptingEntries is answered Rejected/QUEUE_FULL and
\* admits nobody, and the collaterals are never more than MaxPoolParticipants.
C20_EveryDsaToldQueueFull ==
  /\ \A n \in DOMAIN DsaReceived :
       FullOrAccepting(DsaReceived[n])
       => /\ PoolUnchanged(DsaReceived[n])
          /\ RejectedOnly(DsaReceived[n], "ERR_QUEUE_FULL")
  /\ Len(vecSessionCollaterals) <= MaxPoolParticipants


\* The dsa and dsi messages the handler of the step has received.
AdmissionReceived(box) ==
  SelectSeq(box, LAMBDA e : e.type \in {"DSACCEPT", "DSVIN"})

\* The answers Rejected/VERSION of the step's handler to a peer.
VersionRefusals(box, pfrom) ==
  SelectSeq(box, LAMBDA e : /\ e.type = "dssu" /\ e.to = pfrom
                            /\ e.b = STATUS_REJECTED /\ e.c = "ERR_VERSION")

\* A step that handles the dsa or dsi of an obsolete peer answers
\* Rejected/VERSION and leaves the server as it was; a step that handles one
\* of a peer of exactly the least version does not answer VERSION.
VersionGateStep ==
  \A n \in DOMAIN AdmissionReceived(outbox') :
    LET e == AdmissionReceived(outbox')[n]
    IN /\ (e.c < MIN_PRIVATESEND_PEER_PROTO_VERSION)
            => /\ Len(VersionRefusals(outbox', e.to)) = 1
               /\ UNCHANGED <<nState, nSessionID, nSessionDenom,
                              vecSessionCollaterals, vecEntries,
                              finalMutableTransaction, nElapsed,
                              vecPrivateSendQueue, nDsqCount, nLastDsq>>
       /\ (e.c = MIN_PRIVATESEND_PEER_PROTO_VERSION)
            => /\ SelectSeq(outbox', LAMBDA x : x.type = "reject") = <<>>
               /\ SelectSeq(outbox', LAMBDA x : x.type = "dssu" /\ x.c = "ERR_VERSION")
                    = <<>>

\* C21: a dsa or dsi of a peer below MIN_PRIVATESEND_PEER_PROTO_VERSION (one
\* below, here) is answered Rejected/VERSION and changes nothing; a peer of
\* exactly that version gets past the version gate.
C21_VersionGate == [][VersionGateStep]_vars

\* The dsi of an obsolete peer has been turned away from a session that is
\* accepting entries.
C21_Witness ==
  /\ DsiReceived # <<>>
  /\ DsiReceived[1].c = MIN_PRIVATESEND_PEER_PROTO_VERSION - 1
  /\ DsiReceived[1].b.fSessionReady
  /\ Statuses("ERR_VERSION") # <<>>
  /\ nState = POOL_STATE_ACCEPTING_ENTRIES


\* The dsq messages the handler of a step has received (one, or none).
DsqReceived(box) == SelectSeq(box, LAMBDA e : e.type = "DSQUEUE")

\* The session, the advertisements seen and their counters stay as they are.
ServerUnchanged ==
  UNCHANGED <<nState, nSessionID, nSessionDenom, vecSessionCollaterals,
              vecEntries, finalMutableTransaction, nElapsed,
              vecPrivateSendQueue, nDsqCount, nLastDsq>>

\* What a handler has done to the score of a peer, and what it has relayed.
Penalties(box) == SelectSeq(box, LAMBDA e : e.type = "Misbehaving")

Relayed(box) == SelectSeq(box, LAMBDA e : e.type = "dsq")

\* More than the queue timeout lies between the clock and the time of dsq.
OutOfWindow(dsq) ==
  \/ dsq.nTime > PRIVATESEND_QUEUE_TIMEOUT
  \/ dsq.nTime < 0 - PRIVATESEND_QUEUE_TIMEOUT

\* A step that handles a dsq out of the time window changes nothing, raises
\* no score and relays nothing.
OutOfWindowStep ==
  \A n \in DOMAIN DsqReceived(outbox') :
    OutOfWindow(DsqReceived(outbox')[n].a)
    => /\ ServerUnchanged
       /\ Penalties(outbox') = <<>>
       /\ Relayed(outbox') = <<>>

\* C22: a received advertisement whose time is more than the queue timeout
\* away from the clock is dropped: the advertisements seen, the counters and
\* the session are unchanged, the peer's score is not raised and nothing is
\* relayed, also when its signature is not valid.
C22_OutOfWindowDropped == [][OutOfWindowStep]_vars

\* The handler has got as far as the time of an advertisement that is out of
\* the window and has no valid signature: the peer is up to date, the lock
\* was free and no advertisement of the masternode is among those seen.
C22_Witness ==
  /\ handler = "DSQUEUE"
  /\ DsqReceived(outbox) # <<>>
  /\ OutOfWindow(DsqReceived(outbox)[1].a)
  /\ DsqReceived(outbox)[1].a.vchSig = "none"
  /\ DsqReceived(outbox)[1].c >= MIN_PRIVATESEND_PEER_PROTO_VERSION
  /\ \E i \in DOMAIN outbox : outbox[i].type = "TRY_LOCK" /\ outbox[i].c
  /\ \A i \in DOMAIN vecPrivateSendQueue :
       vecPrivateSendQueue[i].masternodeOutpoint
         # DsqReceived(outbox)[1].a.masternodeOutpoint


\* The dsa messages the handler of a step has received (one, or none).
DsaReceivedIn(box) == SelectSeq(box, LAMBDA e : e.type = "DSACCEPT")

\* The masternode's last advertisement is too recent: its count and a fifth
\* of the masternodes are more than the advertisements counted so far.
TooRecent(outpoint) == nLastDsq[outpoint] + RegistrySize \div 5 > nDsqCount

\* The step admits nobody and leaves the server as it is.
DsaRefused ==
  /\ ServerUnchanged
  /\ SelectSeq(outbox', LAMBDA e : e.type = "dssu" /\ e.b = STATUS_ACCEPTED) = <<>>

\* The step leaves the server as it is and relays nothing.
DsqDropped == ServerUnchanged /\ Relayed(outbox') = <<>>

\* A dsa for a new session, and a dsq that is not ready, are refused when the
\* masternode has advertised before and too recently.
ThresholdStep ==
  /\ \A n \in DOMAIN DsaReceivedIn(outbox') :
       (/\ nSessionID = 0
        /\ nLastDsq[OwnOutpoint] # 0
        /\ TooRecent(OwnOutpoint))
       => DsaRefused
  /\ \A n \in DOMAIN DsqReceived(outbox') :
       LET dsq == DsqReceived(outbox')[n].a
       IN (/\ ~dsq.fReady
           /\ dsq.masternodeOutpoint \in DOMAIN nLastDsq
           /\ nLastDsq[dsq.masternodeOutpoint] # 0
           /\ TooRecent(dsq.masternodeOutpoint))
          => DsqDropped

\* C23: a dsa for a new session, and a received advertisement that is not
\* ready, are refused with no change of state whenever the masternode has
\* advertised before (its last count is not 0) and its last count plus a
\* fifth of the masternodes is more than the count of all advertisements.
C23_TooRecentRefused == [][ThresholdStep]_vars

\* A dsa for a new session has been answered RECENT for the count alone: no
\* advertisement of the own masternode is among those seen.
C23_Witness ==
  /\ handler = "DSACCEPT"
  /\ nSessionID = 0
  /\ nLastDsq[OwnOutpoint] # 0
  /\ TooRecent(OwnOutpoint)
  /\ Statuses("ERR_RECENT") # <<>>
  /\ \A i \in DOMAIN vecPrivateSendQueue :
       vecPrivateSendQueue[i].masternodeOutpoint # OwnOutpoint

\* The same for every last count, 0 (never advertised) among them.
ThresholdStepAlways ==
  /\ \A n \in DOMAIN DsaReceivedIn(outbox') :
       (nSessionID = 0 /\ TooRecent(OwnOutpoint)) => DsaRefused
  /\ \A n \in DOMAIN DsqReceived(outbox') :
       LET dsq == DsqReceived(outbox')[n].a
       IN (/\ ~dsq.fReady
           /\ dsq.masternodeOutpoint \in DOMAIN nLastDsq
           /\ TooRecent(dsq.masternodeOutpoint))
          => DsqDropped

\* C23 as stated: refused whenever the last count plus a fifth of the
\* masternodes is more than the count of all advertisements, whatever the
\* last count, also that of a masternode that has never advertised.
C23_TooRecentRefusedAlways == [][ThresholdStepAlways]_vars


\* The handler of the step has created a session (CreateNewSession has set
\* the state from Idle to Queue).
SessionCreated(box) ==
  \E i \in DOMAIN box : /\ box[i].type = "SetState"
                        /\ box[i].a = POOL_STATE_IDLE
                        /\ box[i].b = POOL_STATE_QUEUE

\* A step that creates a session counts one advertisement more and stamps
\* the own masternode with the count; any other step leaves both alone.
CounterStep ==
  IF SessionCreated(outbox')
  THEN /\ nDsqCount' = nDsqCount + 1
       /\ nLastDsq' = [nLastDsq EXCEPT ![OwnOutpoint] = nDsqCount + 1]
  ELSE UNCHANGED <<nDsqCount, nLastDsq>>

\* C24: the count of advertisements is incremented, and the own masternode's
\* last count stamped, exactly when CreateNewSession succeeds; no other
\* operation changes them.
C24_CountedExactlyAtCreation == [][CounterStep]_vars


\* The handler of e has got hold of cs_vecqueue for a peer that is up to date.
ScansQueue(e, box) ==
  /\ e.c >= MIN_PRIVATESEND_PEER_PROTO_VERSION
  /\ \E i \in DOMAIN box : /\ box[i].type = "TRY_LOCK"
                           /\ box[i].a = "cs_vecqueue"
                           /\ box[i].c

\* Among the advertisements seen there is one of the masternode of dsq with
\* its readiness, and none that is equal to dsq.
SameReadinessSeen(dsq) ==
  /\ \E i \in DOMAIN vecPrivateSendQueue :
       /\ vecPrivateSendQueue[i].fReady = dsq.fReady
       /\ vecPrivateSendQueue[i].masternodeOutpoint = dsq.masternodeOutpoint
  /\ \A i \in DOMAIN vecPrivateSendQueue :
       ~(/\ vecPrivateSendQueue[i].nDenom = dsq.nDenom
         /\ vecPrivateSendQueue[i].masternodeOutpoint = dsq.masternodeOutpoint
         /\ vecPrivateSendQueue[i].nTime = dsq.nTime
         /\ vecPrivateSendQueue[i].fReady = dsq.fReady)

\* The advertisement is new, in the time window and of a masternode of the
\* list, and its signature is not the masternode's.
BadSignature(dsq) ==
  /\ \A i \in DOMAIN vecPrivateSendQueue :
       \/ vecPrivateSendQueue[i].fReady # dsq.fReady
       \/ vecPrivateSendQueue[i].masternodeOutpoint # dsq.masternodeOutpoint
  /\ ~OutOfWindow(dsq)
  /\ dsq.masternodeOutpoint \in DOMAIN nLastDsq
  /\ dsq.vchSig # dsq.masternodeOutpoint

\* The step raises the score of the peer of e and drops the advertisement.
PenalisedAndDropped(e) ==
  /\ \E i \in DOMAIN Penalties(outbox') : Penalties(outbox')[i].to = e.to
  /\ vecPrivateSendQueue' = vecPrivateSendQueue
  /\ Relayed(outbox') = <<>>

PenaltyStep ==
  \A n \in DOMAIN DsqReceived(outbox') :
    LET e == DsqReceived(outbox')[n]
    IN ScansQueue(e, outbox')
       => /\ BadSignature(e.a) => PenalisedAndDropped(e)
          /\ SameReadinessSeen(e.a) => PenalisedAndDropped(e)

\* C25: the score of the relaying peer is raised, and the advertisement
\* dropped, when its signature is bad, and when an advertisement of the same
\* masternode with the same readiness is among those seen already.
C25_BothMisbehavioursPenalised == [][PenaltyStep]_vars


\* No advertisement seen is equal to dsq or is of its masternode with its
\* readiness; dsq is in the time window, of a masternode of the list and
\* signed by it.
NewAndValid(dsq) ==
  /\ \A i \in DOMAIN vecPrivateSendQueue :
       \/ vecPrivateSendQueue[i].fReady # dsq.fReady
       \/ vecPrivateSendQueue[i].masternodeOutpoint # dsq.masternodeOutpoint
  /\ ~OutOfWindow(dsq)
  /\ dsq.masternodeOutpoint \in DOMAIN nLastDsq
  /\ dsq.vchSig = dsq.masternodeOutpoint

\* The step appends dsq to the advertisements seen and relays it.
AppendedAndRelayed(dsq) ==
  /\ vecPrivateSendQueue' = Append(vecPrivateSendQueue, dsq)
  /\ Len(Relayed(outbox')) = 1
  /\ Relayed(outbox')[1].a = dsq

\* The peer of e is up to date and no TRY_LOCK of the handler has failed.
LocksFree(e, box) ==
  /\ e.c >= MIN_PRIVATESEND_PEER_PROTO_VERSION
  /\ \A i \in DOMAIN box : box[i].type = "TRY_LOCK" => box[i].c

IngestionStep ==
  \A n \in DOMAIN DsqReceived(outbox') :
    LET e == DsqReceived(outbox')[n]
        dsq == e.a
    IN (/\ LocksFree(e, outbox')
        /\ NewAndValid(dsq)
        /\ \/ nLastDsq[dsq.masternodeOutpoint] = 0
           \/ ~TooRecent(dsq.masternodeOutpoint))
       => IF dsq.fReady
          THEN /\ vecPrivateSendQueue' = vecPrivateSendQueue
               /\ Relayed(outbox') = <<>>
          ELSE AppendedAndRelayed(dsq)

\* C26: a received advertisement that is not ready, is new, in the time
\* window, of a masternode of the list, validly signed and not too recent is
\* appended to the advertisements seen and relayed, when its peer is up to
\* date and cs_vecqueue is free; one that is ready is neither appended nor
\* relayed.
C26_NonReadyIngested == [][IngestionStep]_vars

\* An advertisement of mn1 has been appended and relayed.
C26_Witness ==
  /\ handler = "DSQUEUE"
  /\ DsqReceived(outbox) # <<>>
  /\ Len(Relayed(outbox)) = 1
  /\ vecPrivateSendQueue # <<>>
  /\ vecPrivateSendQueue[Len(vecPrivateSendQueue)] = DsqReceived(outbox)[1].a
  /\ Relayed(outbox)[1].a = DsqReceived(outbox)[1].a
  /\ DsqReceived(outbox)[1].a.masternodeOutpoint = "mn1"

IngestionStepAlways ==
  \A n \in DOMAIN DsqReceived(outbox') :
    LET dsq == DsqReceived(outbox')[n].a
    IN (NewAndValid(dsq) /\ ~TooRecent(dsq.masternodeOutpoint))
       => AppendedAndRelayed(dsq)

\* C26 as stated: every received advertisement that is new, in the time
\* window, of a masternode of the list, validly signed and within the
\* threshold is appended and relayed, ready or not.
C26_EveryValidIngested == [][IngestionStepAlways]_vars


\* AddEntry has succeeded in the handler of the step.
EntryAdded(box) ==
  \E i \in DOMAIN box : /\ box[i].type = "dssu"
                        /\ box[i].b = STATUS_ACCEPTED
                        /\ box[i].c = "MSG_ENTRIES_ADDED"

\* The session has enough participants: it is accepting entries, or is in
\* Queue with MaxPoolParticipants collaterals or, timed out, with
\* MinPoolParticipants.
EnoughUsers ==
  \/ nState = POOL_STATE_ACCEPTING_ENTRIES
  \/ /\ nState = POOL_STATE_QUEUE
     /\ \/ Len(vecSessionCollaterals) >= MaxPoolParticipants
        \/ /\ nElapsed >= PRIVATESEND_QUEUE_TIMEOUT
           /\ Len(vecSessionCollaterals) >= MinPoolParticipants

\* C28: AddEntry succeeds only when the session has enough participants (in
\* AcceptingEntries, or in Queue once it is ready) and holds fewer entries
\* than collaterals; no entry is appended in Idle or in Signing.
C28_EntryOnlyWhenReady ==
  [][EntryAdded(outbox')
       => /\ EnoughUsers
          /\ Len(vecEntries) < Len(vecSessionCollaterals)
          /\ nState \notin {POOL_STATE_IDLE, POOL_STATE_SIGNING}]_vars

\* An entry has been appended while the session is in Queue.
C28_Witness ==
  /\ handler = "DSVIN"
  /\ nState = POOL_STATE_QUEUE
  /\ EntryAdded(outbox)
  /\ vecEntries # <<>>

\* C28 as stated: AddEntry succeeds only in AcceptingEntries with fewer
\* entries than collaterals.
C28_EntryOnlyWhenAccepting ==
  [][EntryAdded(outbox')
       => /\ nState = POOL_STATE_ACCEPTING_ENTRIES
          /\ Len(vecEntries) < Len(vecSessionCollaterals)]_vars


\* The inputs of entries that have a signature recorded.
SignedInputs(entries) ==
  { p \in UNION { { <<i, j>> : j \in DOMAIN entries[i].vecTxDSIn }
                  : i \in DOMAIN entries } :
      entries[p[1]].vecTxDSIn[p[2]].fHasSig }

\* C29: AddScriptSig succeeds only in Signing: a dss message received in
\* Idle, Queue or AcceptingEntries records no signature on an input of an
\* entry and does not modify the final transaction.
C29_SignaturesOnlyInSigning ==
  [][(handler' = "DSSIGNFINALTX" /\ nState # POOL_STATE_SIGNING)
       => /\ SignedInputs(vecEntries') \subseteq SignedInputs(vecEntries)
          /\ finalMutableTransaction' = finalMutableTransaction]_vars


\* The advertisements the last handler has relayed for the own session
\* (those the dsq handler passes on are of others).
OwnRelayed == IF handler = "DSQUEUE" THEN <<>> ELSE Relayed(outbox)

\* The last handler has moved the session from Queue to AcceptingEntries.
QueueCompleted(box) ==
  \E i \in DOMAIN box : /\ box[i].type = "SetState"
                        /\ box[i].a = POOL_STATE_QUEUE
                        /\ box[i].b = POOL_STATE_ACCEPTING_ENTRIES

\* One advertisement that is not ready is relayed by the handler that creates
\* the session, one that is ready by the handler that moves the session from
\* Queue to AcceptingEntries, and no other.
OnePerPhase ==
  /\ Len(SelectSeq(OwnRelayed, LAMBDA e : ~e.a.fReady))
       = IF SessionCreated(outbox) THEN 1 ELSE 0
  /\ Len(SelectSeq(OwnRelayed, LAMBDA e : e.a.fReady))
       = IF QueueCompleted(outbox) THEN 1 ELSE 0

\* C30: every advertisement the coordinator relays for its session carries
\* its own outpoint and a signature made with its operator key (one whose
\* signing failed is not relayed); a session has one advertisement that is
\* not ready, at its creation, and at most one that is ready, at the change
\* from Queue to AcceptingEntries.
C30_OwnAdvertisementsSigned ==
  /\ \A i \in DOMAIN OwnRelayed :
       /\ OwnRelayed[i].a.masternodeOutpoint = OwnOutpoint
       /\ OwnRelayed[i].a.vchSig = OwnOutpoint
  /\ OnePerPhase

\* The places of a handler at which the thread is inside a session
\* transition, and those at which it reads or writes vecPrivateSendQueue.
SessionPlaces ==
  {"dsa_checks", "dsa_scan", "dsa_session", "dsa_push", "tick_session",
   "tick_queue"}

QueuePlaces == {"dsa_scan", "dsa_push", "dsq_scan", "dsq_push", "tick_queue"}

\* C27: message handlers and the maintenance tick are never inside a session
\* transition at the same time, and a thread that reads or writes the queue
\* of advertisements (the push of the own advertisement of a new session
\* included) holds the mutex that guards it.
C27_TransitionsUnderMutex ==
  /\ ~(pc["msghand"] \in SessionPlaces /\ pc["scheduler"] \in SessionPlaces)
  /\ \A th \in Threads : pc[th] \in QueuePlaces => cs_vecqueue = th

\* The status updates a handler has sent.
Answers(box) == SelectSeq(box, LAMBDA e : e.type = "dssu")

\* The handler of box has failed to lock the queue of advertisements.
QueueLockMissed(box) ==
  \E i \in DOMAIN box :
    box[i].type = "TRY_LOCK" /\ box[i].a = "cs_vecqueue" /\ ~box[i].c

\* A step that handles a dsa and accepts nobody leaves the session's state,
\* id, denomination and collaterals alone and answers nobody but the sender,
\* with Rejected: once, or not at all if fSilent holds of the step.
RefusalStep(fSilent(_)) ==
  \A n \in DOMAIN DsaReceivedIn(outbox') :
    LET e == DsaReceivedIn(outbox')[n]
        answers == Answers(outbox')
    IN (\A i \in DOMAIN answers : answers[i].b # STATUS_ACCEPTED)
       => /\ UNCHANGED <<nState, nSessionID, nSessionDenom, vecSessionCollaterals>>
          /\ \A i \in DOMAIN answers :
               answers[i].to = e.to /\ answers[i].b = STATUS_REJECTED
          /\ Len(answers) = IF fSilent(outbox') THEN 0 ELSE 1

Never(box) == FALSE

\* C31: a dsa that is handled and admits nobody leaves the session's state,
\* id, denomination and collaterals unchanged and is answered with exactly
\* one status update, Rejected, to its sender only, unless the handler could
\* not lock the queue of advertisements: then nothing is sent.
C31_RefusedDsaAnsweredOnce == [][RefusalStep(QueueLockMissed)]_vars

\* A dsa for another denomination than the session's has been refused in
\* Queue.
C31_Witness ==
  /\ DsaReceived # <<>>
  /\ DsaReceived[1].b.nState = POOL_STATE_QUEUE
  /\ DsaReceived[1].a.nDenom # nSessionDenom
  /\ Statuses("ERR_DENOM") # <<>>
  /\ nState = POOL_STATE_QUEUE

\* C31 as stated: every dsa that is handled and admits nobody is answered
\* with exactly one status update, Rejected, to its sender only, and leaves
\* the session's state, id, denomination and collaterals unchanged.
C31_EveryRefusedDsaAnswered == [][RefusalStep(Never)]_vars

\* The handler of box has found no participant with an entry connected.
EveryoneGone(entries, box) ==
  /\ entries # <<>>
  /\ \A k \in DOMAIN entries :
       \E i \in DOMAIN box :
         box[i].type = "ForNodeFailed" /\ box[i].to = entries[k].addr

\* The handler of box has gone to Signing, after ChargeFees.
SigningAfterFees(box) ==
  \E i, j \in DOMAIN box :
    /\ i < j
    /\ box[i].type = "GetRandInt" /\ box[i].b = 33
    /\ box[j].type = "SetState" /\ box[j].b = POOL_STATE_SIGNING

Resets(box) == SelectSeq(box, LAMBDA e : e.type = "SetNull")

\* A tick that finds AcceptingEntries timed out with MinPoolParticipants
\* entries goes to Signing, after ChargeFees, and does not reset the session
\* unless fReset holds of the step; with fewer entries it resets the session;
\* a tick that finds Queue timed out with MinPoolParticipants collaterals
\* goes to AcceptingEntries (and on to Signing if every entry is there) and
\* does not reset unless fReset holds of the step.
TickOrderStep(fReset(_, _)) ==
  handler' = "DoMaintenance" =>
    /\ (/\ nState = POOL_STATE_ACCEPTING_ENTRIES
        /\ HasTimedOut(Cur)
        /\ Len(vecEntries) >= MinPoolParticipants)
         => /\ SigningAfterFees(outbox')
            /\ IF fReset(vecEntries, outbox')
               THEN nState' = POOL_STATE_IDLE
               ELSE nState' = POOL_STATE_SIGNING /\ Resets(outbox') = <<>>
    /\ (/\ nState = POOL_STATE_ACCEPTING_ENTRIES
        /\ HasTimedOut(Cur)
        /\ Len(vecEntries) < MinPoolParticipants)
         => /\ nState' = POOL_STATE_IDLE
            /\ nSessionID' = 0
            /\ Len(Resets(outbox')) = 1
    /\ (/\ nState = POOL_STATE_QUEUE
        /\ HasTimedOut(Cur)
        /\ Len(vecSessionCollaterals) >= MinPoolParticipants)
         => /\ \E i \in DOMAIN outbox' :
                 /\ outbox'[i].type = "SetState"
                 /\ outbox'[i].a = POOL_STATE_QUEUE
                 /\ outbox'[i].b = POOL_STATE_ACCEPTING_ENTRIES
            /\ IF fReset(vecEntries, outbox')
               THEN nState' = POOL_STATE_IDLE
               ELSE /\ nState' \in {POOL_STATE_ACCEPTING_ENTRIES, POOL_STATE_SIGNING}
                    /\ Resets(outbox') = <<>>

NoReset(entries, box) == FALSE

\* C32: a tick runs CheckForCompleteQueue, CheckPool and CheckTimeout in this
\* order: AcceptingEntries timed out with at least MinPoolParticipants
\* entries goes to Signing after ChargeFees and is not reset by the tick,
\* unless no participant with an entry is connected when the final
\* transaction is relayed (the session is reset then); with fewer entries
\* the session is reset to Idle; Queue timed out with at least
\* MinPoolParticipants collaterals goes to AcceptingEntries and is not
\* reset, with the same exception.
C32_TickOrder == [][TickOrderStep(EveryoneGone)]_vars

\* A tick has taken a session that timed out in AcceptingEntries with an
\* entry missing to Signing.
C32_Witness ==
  /\ handler = "DoMaintenance"
  /\ nState = POOL_STATE_SIGNING
  /\ SigningAfterFees(outbox)
  /\ Len(vecEntries) >= MinPoolParticipants
  /\ Len(vecEntries) < Len(vecSessionCollaterals)
  /\ Resets(outbox) = <<>>

\* C32 as stated: AcceptingEntries timed out with at least
\* MinPoolParticipants entries is never reset by the tick that takes it to
\* Signing.
C32_TickOrderNeverResets == [][TickOrderStep(NoReset)]_vars

\* AddScriptSig refuses one of the inputs of a dss message, taken in order.
RECURSIVE SigFails(_, _)
SigFails(s, vecTxIn) ==
  IF vecTxIn = <<>> THEN FALSE
  ELSE LET r == AddScriptSig(s, Head(vecTxIn))
       IN ~r.fResult \/ SigFails(r.s, Tail(vecTxIn))

\* Rejected has gone to every participant with an entry, as far as it is
\* connected.
RejectedToAll(entries, box) ==
  \A k \in DOMAIN entries :
    \E i \in DOMAIN box :
      /\ box[i].to = entries[k].addr
      /\ \/ box[i].type = "ForNodeFailed"
         \/ box[i].type = "dssu" /\ box[i].b = STATUS_REJECTED

\* Nothing that CheckPool does has been done.
NoCheckPool(box) ==
  \A i \in DOMAIN box : box[i].type \in {"dssu", "ForNodeFailed", "SetNull"}

\* C33: a dss message with a signature that AddScriptSig refuses, received in
\* Signing: Rejected is relayed to every participant with an entry, the
\* handler ends without calling CheckPool, so that the message commits
\* nothing, and the session stays in Signing (or is reset, if no participant
\* is connected).
C33_FailedDssRejected ==
  \A m \in DssMessages, conn \in ConnChoices :
    (/\ nState = POOL_STATE_SIGNING
     /\ m.nVersion >= MIN_PRIVATESEND_PEER_PROTO_VERSION
     /\ SigFails(Cur, m.vecTxIn))
      => \A s \in ProcessDSSIGNFINALTX(Cur, m.pfrom, m.nVersion, m.vecTxIn, conn) :
           /\ RejectedToAll(vecEntries, s.out)
           /\ NoCheckPool(s.out)
           /\ IF EveryoneGone(vecEntries, s.out)
              THEN s.nState = POOL_STATE_IDLE
              ELSE /\ s.nState = POOL_STATE_SIGNING
                   /\ s.nSessionID = nSessionID
                   /\ Len(s.vecEntries) = Len(vecEntries)

\* The last handler was that of a dss message with a signature that was
\* refused, and has left the session in Signing.
DssFailed ==
  /\ handler = "DSSIGNFINALTX"
  /\ nState = POOL_STATE_SIGNING
  /\ outbox # <<>>
  /\ NoCheckPool(outbox)
  /\ RejectedToAll(vecEntries, outbox)

\* A signature of a dss message has been refused in a session of two
\* entries, and everybody has been told.
C33_Witness ==
  /\ DssFailed
  /\ Len(vecEntries) >= MinPoolParticipants
  /\ Len(Answers(outbox)) = Len(vecEntries)

\* C33 as stated, in what it says of the session afterwards: once a
\* signature of a dss message has been refused the final transaction of the
\* session is not committed as a success, the step after being the first
\* that could do so.
C33_RejectedRoundNeverCommits ==
  [][DssFailed
       => \A i \in DOMAIN outbox' :
            ~(/\ outbox'[i].type = "AcceptToMemoryPool"
              /\ outbox'[i].a = "final"
              /\ outbox'[i].c)]_vars

\* The inputs that dss messages bring.
DssInputs ==
  UNION { SeqToSet(m.vecTxIn) : m \in DssMessages \cup DssAgainMessages }

\* The script of every input of the final transaction is the script of the
\* input in its entry.
ScriptsAgree(entries, tx) ==
  \A i \in DOMAIN entries :
    \A j \in DOMAIN entries[i].vecTxDSIn :
      \A k \in DOMAIN tx.vin :
        (/\ tx.vin[k].prevout = entries[i].vecTxDSIn[j].prevout
         /\ tx.vin[k].nSequence = entries[i].vecTxDSIn[j].nSequence)
          => tx.vin[k].scriptSig = entries[i].vecTxDSIn[j].scriptSig

\* C34: in Signing the script of every input of the final transaction is the
\* script of the input in its entry; a call of AddScriptSig that succeeds
\* sets the script in both, a call that returns false changes neither, and
\* an input that is signed keeps its script.
C34_ScriptsAgree ==
  nState = POOL_STATE_SIGNING =>
    /\ ScriptsAgree(vecEntries, finalMutableTransaction)
    /\ \A txin \in DssInputs :
         LET r == AddScriptSig(Cur, txin)
         IN /\ ScriptsAgree(r.s.vecEntries, r.s.finalMutableTransaction)
            /\ r.fResult =>
                 \E k \in DOMAIN r.s.finalMutableTransaction.vin :
                   /\ r.s.finalMutableTransaction.vin[k].prevout = txin.prevout
                   /\ r.s.finalMutableTransaction.vin[k].scriptSig = txin.scriptSig
            /\ ~r.fResult =>
                 /\ r.s.finalMutableTransaction = finalMutableTransaction
                 /\ r.s.vecEntries = vecEntries
            /\ \A k \in DOMAIN finalMutableTransaction.vin :
                 finalMutableTransaction.vin[k].scriptSig # 0 =>
                   r.s.finalMutableTransaction.vin[k].scriptSig
                     = finalMutableTransaction.vin[k].scriptSig

\* C35: every entry carries one of the collaterals of the session, and no two
\* entries carry the same collateral.
C35_EntriesOfAdmitted ==
  /\ \A i \in DOMAIN vecEntries :
       \E k \in DOMAIN vecSessionCollaterals :
         vecEntries[i].txCollateral = vecSessionCollaterals[k]
  /\ \A i, j \in DOMAIN vecEntries :
       i # j => vecEntries[i].txCollateral # vecEntries[j].txCollateral

\* The collaterals of the participants that have done their part when
\* ChargeFees runs: in AcceptingEntries those whose entry is in the pool, in
\* Signing those whose entry has every input signed.
Cooperative(nStateThen, entries) ==
  { entries[k].txCollateral :
      k \in { n \in DOMAIN entries :
                \/ nStateThen = POOL_STATE_ACCEPTING_ENTRIES
                \/ /\ nStateThen = POOL_STATE_SIGNING
                   /\ n \notin UnsignedEntries(entries) } }

\* C36: ChargeFees gives no collateral of a participant to the mempool whose
\* entry is in the pool when it runs in AcceptingEntries, or whose entry has
\* every input signed when it runs in Signing.
C36_CooperativeNeverCharged ==
  \A i \in DOMAIN Offences :
    \A k \in DOMAIN CollateralSubmissions :
      CollateralSubmissions[k].b
        \notin Cooperative(Offences[i].a, Offences[i].c.vecEntries)

\* The step resets the session.
ResetStep ==
  /\ nSessionID' = 0
  /\ nSessionDenom' = 0
  /\ nState' = POOL_STATE_IDLE
  /\ vecSessionCollaterals' = <<>>
  /\ vecEntries' = <<>>

\* The step leaves the id and the denomination of a session alone, adds at
\* most one collateral, and that in Queue only, and adds no entry for a dsi
\* in Signing; or it resets the session.
FrameStep ==
  /\ nSessionID # 0 =>
       \/ nSessionID' = nSessionID /\ nSessionDenom' = nSessionDenom
       \/ ResetStep
  /\ vecSessionCollaterals' # vecSessionCollaterals =>
       \/ /\ Len(vecSessionCollaterals') = Len(vecSessionCollaterals) + 1
          /\ SubSeq(vecSessionCollaterals', 1, Len(vecSessionCollaterals))
               = vecSessionCollaterals
          /\ nState \in {POOL_STATE_IDLE, POOL_STATE_QUEUE}
          /\ nState' = POOL_STATE_QUEUE
          /\ handler' = "DSACCEPT"
       \/ ResetStep
  /\ (/\ nState \in {POOL_STATE_ACCEPTING_ENTRIES, POOL_STATE_SIGNING}
      /\ handler' \in {"DSACCEPT", "DSVIN", "DSSIGNFINALTX"})
       => vecSessionCollaterals' = vecSessionCollaterals \/ ResetStep
  /\ (nState = POOL_STATE_SIGNING /\ handler' = "DSVIN")
       => vecEntries' = vecEntries

\* C37: within a session the id and the denomination do not change, the
\* collaterals only grow, and only in Queue (no message changes them in
\* AcceptingEntries or Signing), and no dsi received in Signing changes the
\* entries; otherwise these fields change only when the session is reset.
C37_SessionFrame == [][FrameStep]_vars

\* A dsa has been refused in Signing, and a dsa for another denomination in
\* Queue before.
C37_Witness ==
  /\ DsaReceived # <<>>
  /\ DsaReceived[1].b.nState = POOL_STATE_SIGNING
  /\ Statuses("ERR_MODE") # <<>>
  /\ nState = POOL_STATE_SIGNING
  /\ vecSessionCollaterals = DsaReceived[1].b.vecSessionCollaterals

\* The time since the last successful step goes back only in a step that
\* changes the state or resets the session; a handler that does neither
\* leaves it alone; and a tick that finds the session timed out changes the
\* state or resets the session.
ClockStep ==
  /\ nElapsed' < nElapsed => nState' # nState \/ ResetStep
  /\ (handler' # "none" /\ StateChanges(outbox') = <<>>)
       => nElapsed' = nElapsed /\ nState' = nState
  /\ (handler' = "DoMaintenance" /\ HasTimedOut(Cur))
       => /\ StateChanges(outbox') # <<>>
          /\ nState' # nState
          /\ nElapsed' = 0

\* C38: the timeout clock restarts only when the state changes or the
\* session is reset: a user, an entry or a signature added does not restart
\* it, and the tick that finds a phase timed out ends the phase.
C38_ClockRestarts == [][ClockStep]_vars

\* A user has been added to a session whose time in Queue has run out, and
\* the session is timed out still.
C38_Witness ==
  /\ handler = "DSACCEPT"
  /\ DsaReceived # <<>>
  /\ DsaReceived[1].b.nState = POOL_STATE_QUEUE
  /\ Len(vecSessionCollaterals) = Len(DsaReceived[1].b.vecSessionCollaterals) + 1
  /\ nState = POOL_STATE_QUEUE
  /\ nElapsed >= PRIVATESEND_QUEUE_TIMEOUT
  /\ HasTimedOut(Cur)

\* The queue holds no advertisement twice.
NoCopies(queue) ==
  \A i, j \in DOMAIN queue : SameQueue(queue[i], queue[j]) => i = j

\* A dsq handled without the advertisement appended and relayed leaves the
\* counter of advertisements and the stamps of the masternodes alone, and
\* no advertisement is in the queue twice.
DsqAllOrNothingStep ==
  /\ (/\ handler' = "DSQUEUE"
      /\ DsqReceived(outbox') # <<>>
      /\ \/ vecPrivateSendQueue' = vecPrivateSendQueue
         \/ Relayed(outbox') = <<>>)
       => nDsqCount' = nDsqCount /\ nLastDsq' = nLastDsq
  /\ NoCopies(vecPrivateSendQueue')

\* C39: in the dsq handler the update of the counter and the append are
\* all or nothing: an advertisement that is not appended and relayed, the
\* queue lock not taken for the append included, leaves the counter and the
\* masternode's last-dsq stamp unchanged, and no advertisement is appended
\* twice.
C39_DsqAllOrNothing == [][DsqAllOrNothingStep]_vars

\* The participants with an entry when the step relays: those of the
\* entries before, and the sender of the entry the step adds.
RelayAddrs(entries, box) ==
  { entries[k].addr : k \in DOMAIN entries }
    \cup { box[i].to : i \in { j \in DOMAIN box : /\ box[j].type = "DSVIN"
                                                   /\ EntryAdded(box) } }

\* The participants a relay of the step found disconnected.
FoundGone(box) ==
  { box[i].to : i \in { j \in DOMAIN box : box[j].type = "ForNodeFailed" } }

\* The collaterals the step submitted to the memory pool.
Consumed(box) ==
  SelectSeq(box, LAMBDA e : e.type = "AcceptToMemoryPool" /\ e.a = "collateral")

\* The step completed the session or found it timed out.
CompletedOrTimedOut(box) ==
  \E i \in DOMAIN box :
    \/ box[i].type = "AcceptToMemoryPool" /\ box[i].a = "final"
    \/ box[i].type = "TimedOut"

\* A relay that finds every participant with an entry disconnected resets
\* the session, and fConsumed(outbox') tells what of collaterals the step
\* may have submitted; a relay that finds some of them disconnected sends
\* Rejected to the others and leaves the session as it is, unless the step
\* completes the session or finds it timed out.
RelayGoneStep(fConsumed(_)) ==
  LET addrs == RelayAddrs(vecEntries, outbox')
      gone == FoundGone(outbox') \cap addrs
  IN /\ (gone # {} /\ gone = addrs)
          => /\ ResetStep
             /\ Resets(outbox') # <<>>
             /\ fConsumed(outbox')
     /\ (gone # {} /\ gone # addrs)
          => /\ \A a \in addrs \ gone :
                  \E i \in DOMAIN outbox' :
                    /\ outbox'[i].type = "dssu"
                    /\ outbox'[i].to = a
                    /\ outbox'[i].b = STATUS_REJECTED
             /\ \/ CompletedOrTimedOut(outbox')
                \/ /\ Resets(outbox') = <<>>
                   /\ nState' # POOL_STATE_IDLE
                   /\ nSessionID' = nSessionID
                   /\ Len(vecEntries') >= Len(vecEntries)
                   /\ vecSessionCollaterals' = vecSessionCollaterals

NothingConsumed(box) == Consumed(box) = <<>>

\* C40: a status relay that finds every participant with an entry
\* disconnected resets the session to Idle, and no collateral is consumed;
\* one that finds only some of them disconnected sends Rejected to the
\* others, and the session is not reset and keeps its state, entries and
\* collaterals until completion or timeout.
C40_RelayFindsDisconnected == [][RelayGoneStep(NothingConsumed)]_vars

====
